---- MODULE Spec2Model ----
(***************************************************************************)
(* A model of the SFIS ingestion pipeline: GenericCSVImporter              *)
(* (ingestion/drivers/csv_importer.py), ConfigLoader                       *)
(* (ingestion/config_loader.py), IngestionRunner (ingestion/runner.py) and *)
(* InflationPlugin (plugins/inflation.py).  Text is modelled at character  *)
(* level: a Python str is a sequence of one-character strings, so that the *)
(* date and amount normalisers are computed the way the code computes      *)
(* them (strptime directive matching, regex stripping, Decimal syntax).    *)
(***************************************************************************)
EXTENDS Integers, Sequences, FiniteSets, TLC

VARIABLES
  loaded_config,  \* the configuration mapping the importer was constructed from
  importer,  \* the fields of the GenericCSVImporter object
  fs,        \* the data files: path -> the lines of the file
  call,      \* the method whose call returned last
  arg,       \* the argument of that call
  ret,       \* what that call returned or raised
  prev,      \* call, arg and ret of the call before it
  dirs,      \* the directories of an IngestionRunner and what they hold
  pc,        \* the position of the runner inside run_all
  frame,     \* the local variables of run_all, run_single and _process_csv
  printed    \* what the runner and the loader have printed, in order

\* The state of a run of the IngestionRunner.
runner_vars == <<dirs, pc, frame, printed>>

vars == <<loaded_config, importer, fs, call, arg, ret, prev, dirs, pc, frame, printed>>

(***************************************************************************)
(* Python values                                                           *)
(***************************************************************************)

\* Python's None.  It is a sequence of one token that is not a character,
\* so it differs from every str and can be compared with one.
None == <<"<None>">>

\* The state of ret before any call has returned.
NoRet == [ok |-> FALSE, exc |-> [type |-> "<no call>", arg |-> None]]

\* A normal return of a call.
Return(v) == [ok |-> TRUE, val |-> v]

\* A call that ends by raising an exception of the given type and argument.
Raise(type, a) == [ok |-> FALSE, exc |-> [type |-> type, arg |-> a]]

Digits == {"0", "1", "2", "3", "4", "5", "6", "7", "8", "9"}

NonZeroDigits == Digits \ {"0"}

DigitVal(c) ==
  CASE c = "0" -> 0 [] c = "1" -> 1 [] c = "2" -> 2 [] c = "3" -> 3
    [] c = "4" -> 4 [] c = "5" -> 5 [] c = "6" -> 6 [] c = "7" -> 7
    [] c = "8" -> 8 [] c = "9" -> 9

IsDigits(s) == \A i \in 1..Len(s) : s[i] \in Digits

\* int(s) for a str of decimal digits; "" gives 0 (only used on the integer
\* and fraction parts of a numeral, either of which may be empty).
RECURSIVE ToInt(_)
ToInt(s) ==
  IF s = <<>> THEN 0
  ELSE ToInt(SubSeq(s, 1, Len(s) - 1)) * 10 + DigitVal(s[Len(s)])

\* s.split(sep) for a one-character separator.
RECURSIVE SplitFrom(_, _, _)
SplitFrom(s, sep, cur) ==
  IF s = <<>> THEN <<cur>>
  ELSE IF Head(s) = sep THEN <<cur>> \o SplitFrom(Tail(s), sep, <<>>)
  ELSE SplitFrom(Tail(s), sep, Append(cur, Head(s)))

Split(s, sep) == SplitFrom(s, sep, <<>>)

\* sep.join(parts)
RECURSIVE Join(_, _)
Join(parts, sep) ==
  IF parts = <<>> THEN <<>>
  ELSE IF Len(parts) = 1 THEN parts[1]
  ELSE parts[1] \o <<sep>> \o Join(Tail(parts), sep)

(***************************************************************************)
(* Date Normalizer: GenericCSVImporter._parse_date                         *)
(***************************************************************************)

\* A datetime.date value.
Date(y, m, d) == [year |-> y, month |-> m, day |-> d]

IsLeap(y) == (y % 4 = 0 /\ y % 100 # 0) \/ y % 400 = 0

DaysInMonth(y, m) ==
  IF m = 2 THEN (IF IsLeap(y) THEN 29 ELSE 28)
  ELSE IF m \in {4, 6, 9, 11} THEN 30 ELSE 31

\* The text a strptime directive accepts (the regular expressions of
\* _strptime.TimeRE):  %Y is \d\d\d\d,  %m is 1[0-2]|0[1-9]|[1-9],
\* %d is 3[01]|[12]\d|0[1-9]|[1-9]| [1-9].
MatchDirective(dir, c) ==
  CASE dir = "Y" -> Len(c) = 4 /\ IsDigits(c)
    [] dir = "m" -> \/ Len(c) = 2 /\ c[1] = "1" /\ c[2] \in {"0", "1", "2"}
                    \/ Len(c) = 2 /\ c[1] = "0" /\ c[2] \in NonZeroDigits
                    \/ Len(c) = 1 /\ c[1] \in NonZeroDigits
    [] dir = "d" -> \/ Len(c) = 2 /\ c[1] = "3" /\ c[2] \in {"0", "1"}
                    \/ Len(c) = 2 /\ c[1] \in {"1", "2"} /\ c[2] \in Digits
                    \/ Len(c) = 2 /\ c[1] = "0" /\ c[2] \in NonZeroDigits
                    \/ Len(c) = 1 /\ c[1] \in NonZeroDigits
                    \/ Len(c) = 2 /\ c[1] = " " /\ c[2] \in NonZeroDigits

\* int() of a matched directive group (int(" 5") is 5).
GroupVal(c) == IF c[1] = " " THEN ToInt(Tail(c)) ELSE ToInt(c)

\* The position of a directive in a format.
DirIndex(fmt, dir) == CHOOSE i \in 1..3 : fmt.dirs[i] = dir

\* datetime.strptime(date_str, fmt).date() for a format of three directives
\* joined by one separator character: the whole text must match, and the
\* matched year, month and day must form a date (year >= 1, day within the
\* month); anything else is a ValueError.
strptime(date_str, fmt) ==
  LET comps == Split(date_str, fmt.sep)
  IN  IF Len(comps) # 3 \/ \E i \in 1..3 : ~MatchDirective(fmt.dirs[i], comps[i])
      THEN Raise("ValueError", date_str)
      ELSE LET y == GroupVal(comps[DirIndex(fmt, "Y")])
               m == GroupVal(comps[DirIndex(fmt, "m")])
               d == GroupVal(comps[DirIndex(fmt, "d")])
           IN  IF y >= 1 /\ d <= DaysInMonth(y, m)
               THEN Return(Date(y, m, d))
               ELSE Raise("ValueError", date_str)

\* The list of formats tried with day-first slash before US slash.
formats_dayfirst ==
  << [dirs |-> <<"Y", "m", "d">>, sep |-> "-"],
     [dirs |-> <<"d", "m", "Y">>, sep |-> "/"],
     [dirs |-> <<"m", "d", "Y">>, sep |-> "/"],
     [dirs |-> <<"Y", "m", "d">>, sep |-> "/"],
     [dirs |-> <<"d", "m", "Y">>, sep |-> "-"],
     [dirs |-> <<"m", "d", "Y">>, sep |-> "-"] >>

\* The list `formats` of _parse_date, in its order.
formats ==
  << [dirs |-> <<"Y", "m", "d">>, sep |-> "-"],
     [dirs |-> <<"m", "d", "Y">>, sep |-> "/"],
     [dirs |-> <<"d", "m", "Y">>, sep |-> "/"],
     [dirs |-> <<"Y", "m", "d">>, sep |-> "/"],
     [dirs |-> <<"d", "m", "Y">>, sep |-> "-"],
     [dirs |-> <<"m", "d", "Y">>, sep |-> "-"] >>

\* The loop run to its end, keeping the result of the last format that
\* parses instead of returning at the first.
RECURSIVE TryFormatsLast(_, _, _)
TryFormatsLast(date_str, i, found) ==
  IF i > Len(formats) THEN found
  ELSE LET r == strptime(date_str, formats[i])
       IN  TryFormatsLast(date_str, i + 1,
                          IF r.ok THEN [ok |-> TRUE, val |-> r.val, fmt |-> i]
                          ELSE found)

TryFormatsLastWins(date_str, i) ==
  TryFormatsLast(date_str, i, Raise("ValueError", date_str))

\* `for fmt in formats: try: return strptime(...) except ValueError: continue`
\* from format i on, then the final raise.  A return records in fmt the index
\* of the format the loop stood at.
RECURSIVE TryFormats(_, _)
TryFormats(date_str, i) ==
  IF i > Len(formats) THEN Raise("ValueError", date_str)
  ELSE LET r == strptime(date_str, formats[i])
       IN  IF r.ok THEN [ok |-> TRUE, val |-> r.val, fmt |-> i]
           ELSE TryFormats(date_str, i + 1)

\* GenericCSVImporter._parse_date.  strptime rejects a non-str argument with
\* a TypeError, which the loop's `except ValueError` does not catch.
_parse_date(date_str) ==
  IF date_str = None
  THEN Raise("TypeError", date_str)
  ELSE TryFormats(date_str, 1)

(***************************************************************************)
(* Amount Normalizer: GenericCSVImporter._parse_amount                     *)
(***************************************************************************)

\* The currency symbols of the regular expression; the four that are not
\* ASCII are written as tokens, each standing for one character.
CurrencySymbols == {"$", "<euro>", "<pound>", "<yen>", "<rupee>"}

\* The characters matched by \s.
Whitespace == {" ", "\t"}

\* The character class without the comma.
StripClassNoComma == CurrencySymbols \cup Whitespace

\* The character class [$<euro><pound><yen><rupee>,\s] of the regular
\* expression.
StripClass == CurrencySymbols \cup {","} \cup Whitespace

\* re.sub(r'[<class>]', '', s): every character of the class is removed,
\* wherever it stands.
RECURSIVE re_sub(_, _)
re_sub(class, s) ==
  IF s = <<>> THEN <<>>
  ELSE IF Head(s) \in class THEN re_sub(class, Tail(s))
  ELSE <<Head(s)>> \o re_sub(class, Tail(s))

\* A decimal.Decimal value: sign, coefficient and exponent as in as_tuple();
\* kind tells a finite number from Infinity, NaN and sNaN.
DecimalValue(kind, sign, coef, exp) ==
  [kind |-> kind, sign |-> sign, coef |-> coef, exp |-> exp]

\* str.lower() on the letters that Decimal's syntax knows.
Lower(c) ==
  CASE c = "E" -> "e" [] c = "N" -> "n" [] c = "A" -> "a" [] c = "I" -> "i"
    [] c = "F" -> "f" [] c = "T" -> "t" [] c = "Y" -> "y" [] c = "S" -> "s"
    [] OTHER -> c

LowerStr(s) == [i \in 1..Len(s) |-> Lower(s[i])]

\* The index of the first character of s from i on that is not a digit,
\* Len(s)+1 if there is none.
RECURSIVE DigitsEnd(_, _)
DigitsEnd(s, i) ==
  IF i > Len(s) THEN i
  ELSE IF s[i] \notin Digits THEN i
  ELSE DigitsEnd(s, i + 1)

\* The numeral b that follows the sign, by decimal's grammar (matched
\* ignoring case, b already lowered):
\*   (?=\d|\.\d) \d* (\. \d*)? (E [-+]? \d+)?  |  Inf(inity)?  |  s? NaN \d*
\* The conversion is exact: every digit of the text is kept in coef and exp.
DecimalBody(sign, b, text) ==
  LET n  == Len(b)
      ie == DigitsEnd(b, 1)
      intpart == SubSeq(b, 1, ie - 1)
      hasdot == IF ie <= n THEN b[ie] = "." ELSE FALSE
      fe == IF hasdot THEN DigitsEnd(b, ie + 1) ELSE ie
      frac == IF hasdot THEN SubSeq(b, ie + 1, fe - 1) ELSE <<>>
      hasexp == IF fe <= n THEN b[fe] = "e" ELSE FALSE
      expsigned == IF hasexp /\ fe + 1 <= n THEN b[fe + 1] \in {"-", "+"} ELSE FALSE
      expdigits == IF hasexp
                   THEN SubSeq(b, IF expsigned THEN fe + 2 ELSE fe + 1, n)
                   ELSE <<>>
      expval == IF ~hasexp THEN 0
                ELSE IF expsigned /\ b[fe + 1] = "-" THEN 0 - ToInt(expdigits)
                ELSE ToInt(expdigits)
      nanstart == IF n >= 1 THEN (IF b[1] = "s" THEN 2 ELSE 1) ELSE 1
      isnan == IF n >= nanstart + 2
               THEN /\ SubSeq(b, nanstart, nanstart + 2) = <<"n", "a", "n">>
                    /\ IsDigits(SubSeq(b, nanstart + 3, n))
               ELSE FALSE
  IN  IF /\ Len(intpart) + Len(frac) > 0
         /\ IF hasexp THEN expdigits # <<>> /\ IsDigits(expdigits) ELSE fe = n + 1
      THEN Return(DecimalValue("finite", sign, ToInt(intpart \o frac),
                               expval - Len(frac)))
      ELSE IF b = <<"i", "n", "f">> \/ b = <<"i", "n", "f", "i", "n", "i", "t", "y">>
      THEN Return(DecimalValue("Infinity", sign, 0, 0))
      ELSE IF isnan
      THEN Return(DecimalValue(IF nanstart = 2 THEN "sNaN" ELSE "NaN", sign,
                               ToInt(SubSeq(b, nanstart + 3, n)), 0))
      ELSE Raise("InvalidOperation", text)

\* decimal.Decimal(text) for a str without whitespace or underscores (the
\* regular expression has removed the whitespace): an optional sign, then
\* the numeral; anything else is decimal.InvalidOperation.
Decimal(text) ==
  LET t == LowerStr(text)
      signed == IF Len(t) >= 1 THEN t[1] \in {"-", "+"} ELSE FALSE
      sign == IF signed THEN (IF t[1] = "-" THEN 1 ELSE 0) ELSE 0
  IN  DecimalBody(sign, IF signed THEN Tail(t) ELSE t, text)

\* `cleaned.startswith('(') and cleaned.endswith(')')`
IsParenthesised(cleaned) ==
  IF Len(cleaned) >= 1
  THEN cleaned[1] = "(" /\ cleaned[Len(cleaned)] = ")"
  ELSE FALSE

\* GenericCSVImporter._parse_amount.  re.sub rejects a non-str argument with a
\* TypeError.
_parse_amount(amount_str) ==
  IF amount_str = None
  THEN Raise("TypeError", amount_str)
  ELSE LET cleaned == re_sub(StripClass, amount_str)
           negated == IF IsParenthesised(cleaned)
                      THEN <<"-">> \o SubSeq(cleaned, 2, Len(cleaned) - 1)
                      ELSE cleaned
       IN  Decimal(negated)

(***************************************************************************)
(* Python dict: a sequence of <<key, value>> pairs with distinct keys, in  *)
(* insertion order.                                                        *)
(***************************************************************************)

\* `k in d`
DictHas(d, k) == \E i \in 1..Len(d) : d[i][1] = k

\* d[k] for a key that is present
DictGet(d, k) == d[CHOOSE i \in 1..Len(d) : d[i][1] = k][2]

\* d[k] = v: a present key keeps its place, a new key goes last.
DictSet(d, k, v) ==
  IF DictHas(d, k)
  THEN [i \in 1..Len(d) |-> IF d[i][1] = k THEN <<k, v>> ELSE d[i]]
  ELSE Append(d, <<k, v>>)

\* dict(zip(keys, vals)), added to d
RECURSIVE dict_zip(_, _, _)
dict_zip(d, keys, vals) ==
  IF keys = <<>> \/ vals = <<>> THEN d
  ELSE dict_zip(DictSet(d, Head(keys), Head(vals)), Tail(keys), Tail(vals))

\* for key in keys: d[key] = v
RECURSIVE dict_fill(_, _, _)
dict_fill(d, keys, v) ==
  IF keys = <<>> THEN d
  ELSE dict_fill(DictSet(d, Head(keys), v), Tail(keys), v)

(***************************************************************************)
(* Configuration and construction: GenericCSVImporter.__init__             *)
(***************************************************************************)

\* config.get(key, default)
ConfigGet(config, key, default) ==
  IF key \in DOMAIN config THEN config[key] ELSE default

\* What a YAML file can hold where a dict is expected: None (an empty
\* value) and a list of strs.  A dict is a record without the key py_type.
NoneValue == [py_type |-> "NoneType"]

ListValue(items) == [py_type |-> "list", items |-> items]

IsDict(v) == "py_type" \notin DOMAIN v

\* `key in container`: the keys of a dict, the items of a list; None is not
\* iterable.
Contains(container, key) ==
  IF IsDict(container) THEN Return(key \in DOMAIN container)
  ELSE IF container.py_type = "list" THEN Return(key \in container.items)
  ELSE Raise("TypeError", None)

required_fields == <<"institution", "driver", "file_pattern", "columns">>

required_columns == <<"date", "narration", "amount">>

\* `for field in fields: if field not in container: raise ValueError(...)`
\* from the i-th field on.
RECURSIVE RequireAll(_, _, _)
RequireAll(fields, i, container) ==
  IF i > Len(fields) THEN Return(None)
  ELSE LET c == Contains(container, fields[i])
       IN  IF ~c.ok THEN c
           ELSE IF ~c.val THEN Raise("ValueError", fields[i])
           ELSE RequireAll(fields, i + 1, container)

\* GenericCSVImporter._validate_config: the first missing field, a driver
\* other than "csv", or the first missing column mapping is a ValueError.
\* A list cannot be subscripted with 'driver'.
_validate_config(config) ==
  LET f == RequireAll(required_fields, 1, config)
  IN  IF ~f.ok THEN f
      ELSE IF ~IsDict(config) THEN Raise("TypeError", None)
      ELSE IF config.driver # "csv" THEN Raise("ValueError", config.driver)
      ELSE RequireAll(required_columns, 1, config.columns)

\* GenericCSVImporter(config): the fields of the new importer.
GenericCSVImporter(config) ==
  LET v == _validate_config(config)
  IN  IF ~v.ok THEN v
      ELSE Return([institution       |-> config.institution,
                   driver            |-> config.driver,
                   file_pattern      |-> config.file_pattern,
                   skip_header_lines |-> ConfigGet(config, "skip_header_lines", 0),
                   columns           |-> config.columns,
                   account           |-> ConfigGet(config, "account", <<>>)])

(***************************************************************************)
(* ConfigLoader.validate                                                   *)
(***************************************************************************)

\* `for field in fields: if field not in container: return False` from the
\* i-th field on; the value is True when the loop ends without returning.
RECURSIVE HasAll(_, _, _)
HasAll(fields, i, container) ==
  IF i > Len(fields) THEN Return(TRUE)
  ELSE LET c == Contains(container, fields[i])
       IN  IF ~c.ok THEN c
           ELSE IF ~c.val THEN Return(FALSE)
           ELSE HasAll(fields, i + 1, container)

\* ConfigLoader.validate without its loop over the required columns.
validate_fields_only(config) ==
  LET f == HasAll(required_fields, 1, config)
  IN  IF ~f.ok \/ ~f.val THEN f
      ELSE IF ~IsDict(config) THEN Raise("AttributeError", None)
      ELSE Return(TRUE)

\* ConfigLoader.validate.  config.get exists for a dict only.
validate(config) ==
  LET f == HasAll(required_fields, 1, config)
  IN  IF ~f.ok \/ ~f.val THEN f
      ELSE IF ~IsDict(config) THEN Raise("AttributeError", None)
      ELSE HasAll(required_columns, 1, ConfigGet(config, "columns", <<>>))

(***************************************************************************)
(* ConfigLoader.load and ConfigLoader.load_all_from_directory              *)
(***************************************************************************)

\* One line of output: the format of the print call and the value put
\* into it.
Printed(fmt, a) == [fmt |-> fmt, arg |-> a]

\* str.endswith
EndsWith(s, suffix) ==
  IF Len(s) < Len(suffix) THEN FALSE
  ELSE SubSeq(s, Len(s) - Len(suffix) + 1, Len(s)) = suffix

\* ConfigLoader.load of a directory entry.  The file may be gone by the
\* time it is loaded; yaml.safe_load raises YAMLError on a malformed
\* document and otherwise returns what the document holds.
load(entry) ==
  IF ~entry.exists THEN Raise("FileNotFoundError", entry.filename)
  ELSE IF entry.malformed THEN Raise("YAMLError", entry.filename)
  ELSE Return(entry.config)

\* The loop of load_all_from_directory over os.listdir from entry i on:
\* the configs loaded so far and the warnings printed so far.
RECURSIVE LoadEntries(_, _, _, _)
LoadEntries(entries, i, loaded, out) ==
  IF i > Len(entries) THEN [configs |-> loaded, printed |-> out]
  ELSE LET filename == entries[i].filename
       IN  IF EndsWith(filename, <<".", "y", "a", "m",
           "l">>) \/ EndsWith(filename, <<".", "y", "m", "l">>)
           THEN LET c == load(entries[i])
                IN  IF c.ok
                    THEN LoadEntries(entries, i + 1, Append(loaded, c.val), out)
                    ELSE LoadEntries(entries, i + 1, loaded,
                           Append(out, Printed("Warning: Failed to load {filename}: {e}",
                                               filename)))
           ELSE LoadEntries(entries, i + 1, loaded, out)

\* The loop ending at the first file that fails to load, with what was
\* loaded before it.
RECURSIVE LoadEntriesUntilError(_, _, _, _)
LoadEntriesUntilError(entries, i, loaded, out) ==
  IF i > Len(entries) THEN [configs |-> loaded, printed |-> out]
  ELSE LET filename == entries[i].filename
       IN  IF EndsWith(filename, <<".", "y", "a", "m",
           "l">>) \/ EndsWith(filename, <<".", "y", "m", "l">>)
           THEN LET c == load(entries[i])
                IN  IF c.ok
                    THEN LoadEntriesUntilError(entries, i + 1,
                                               Append(loaded, c.val), out)
                    ELSE [configs |-> loaded, printed |-> out]
           ELSE LoadEntriesUntilError(entries, i + 1, loaded, out)

\* load_all_from_directory with the loop ending at the first failure.
load_all_until_error(directory) ==
  IF ~directory.is_dir THEN Raise("NotADirectoryError", None)
  ELSE Return(LoadEntriesUntilError(directory.entries, 1, <<>>, <<>>))

\* ConfigLoader.load_all_from_directory: the list of configs returned,
\* together with what was printed.
load_all_from_directory(directory) ==
  IF ~directory.is_dir THEN Raise("NotADirectoryError", None)
  ELSE Return(LoadEntries(directory.entries, 1, <<>>, <<>>))


(***************************************************************************)
(* Row Mapper: GenericCSVImporter._parse_row                               *)
(***************************************************************************)

\* The loop over self.columns['meta'] from entry i on: a configured name
\* that is a key of the row is copied with the row's value.
RECURSIVE CopyMeta(_, _, _, _)
CopyMeta(meta_fields, i, row, meta) ==
  IF i > Len(meta_fields) THEN meta
  ELSE CopyMeta(meta_fields, i + 1, row,
                IF DictHas(row, meta_fields[i])
                THEN DictSet(meta, meta_fields[i], DictGet(row, meta_fields[i]))
                ELSE meta)

\* GenericCSVImporter._parse_row.  row[column] of a missing key is a
\* KeyError carrying the column name; the normalisers' exceptions propagate.
\* self.columns['date'] of a list is a TypeError.
_parse_row(self, row) ==
  IF ~IsDict(self.columns) THEN Raise("TypeError", None)
  ELSE
  LET date_column == self.columns.date
      narration_column == self.columns.narration
      amount_column == self.columns.amount
  IN  IF ~DictHas(row, date_column) THEN Raise("KeyError", date_column)
      ELSE LET d == _parse_date(DictGet(row, date_column))
      IN  IF ~d.ok THEN d
      ELSE IF ~DictHas(row, narration_column) THEN Raise("KeyError", narration_column)
      ELSE IF ~DictHas(row, amount_column) THEN Raise("KeyError", amount_column)
      ELSE LET a == _parse_amount(DictGet(row, amount_column))
      IN  IF ~a.ok THEN a
      ELSE LET transaction == [date      |-> d.val,
                               narration |-> DictGet(row, narration_column),
                               amount    |-> a.val]
      IN  IF "meta" \in DOMAIN self.columns
          THEN Return(transaction @@
                      [meta |-> CopyMeta(self.columns.meta, 1, row, <<>>)])
          ELSE Return(transaction)

(***************************************************************************)
(* Tabular Source Parser: GenericCSVImporter.parse                         *)
(***************************************************************************)

\* One row of csv.reader: the fields of a line (given without its line
\* terminator; the modelled text has no quote character), and [] for a
\* blank line.
csv_row(line) == IF line = <<>> THEN <<>> ELSE Split(line, ",")

\* The dict csv.DictReader builds for a row: the fields zipped with the
\* field names, surplus fields collected under restkey None, and the field
\* names the row is too short for set to restval None.
DictReaderRow(fieldnames, row) ==
  LET d  == dict_zip(<<>>, fieldnames, row)
      lf == Len(fieldnames)
      lr == Len(row)
  IN  IF lf < lr THEN DictSet(d, None, SubSeq(row, lf + 1, lr))
      ELSE IF lf > lr THEN dict_fill(d, SubSeq(fieldnames, lr + 1, lf), None)
      ELSE d

\* The loop with a row's exception swallowed: the row is dropped and the
\* loop goes on.
RECURSIVE ParseRowsSkipBad(_, _, _, _)
ParseRowsSkipBad(self, fieldnames, lines, transactions) ==
  IF lines = <<>> THEN Return(transactions)
  ELSE LET row == csv_row(Head(lines))
       IN  IF row = <<>>
           THEN ParseRowsSkipBad(self, fieldnames, Tail(lines), transactions)
           ELSE LET t == _parse_row(self, DictReaderRow(fieldnames, row))
                IN  ParseRowsSkipBad(self, fieldnames, Tail(lines),
                                     IF t.ok THEN Append(transactions, t.val)
                                     ELSE transactions)

\* `for row in reader: transactions.append(self._parse_row(row))`.
\* DictReader does not return blank rows; an exception of _parse_row leaves
\* the loop and parse, and the transactions collected so far are dropped.
RECURSIVE ParseRows(_, _, _, _)
ParseRows(self, fieldnames, lines, transactions) ==
  IF lines = <<>> THEN Return(transactions)
  ELSE LET row == csv_row(Head(lines))
       IN  IF row = <<>>
           THEN ParseRows(self, fieldnames, Tail(lines), transactions)
           ELSE LET t == _parse_row(self, DictReaderRow(fieldnames, row))
                IN  IF t.ok
                    THEN ParseRows(self, fieldnames, Tail(lines),
                                   Append(transactions, t.val))
                    ELSE t

\* parse with the header taken at line skip_header_lines - 1.
parse_off_by_one(self, all_lines) ==
  IF self.skip_header_lines > Len(all_lines) \/ all_lines = <<>>
  THEN Return(<<>>)
  ELSE LET h == IF self.skip_header_lines = 0 THEN 1 ELSE self.skip_header_lines
       IN  ParseRows(self, csv_row(all_lines[h]),
                     SubSeq(all_lines, h + 1, Len(all_lines)), <<>>)

\* parse with the guard `>` in place of `>=`: indexing the header one past
\* the last line is an IndexError.
parse_guard_gt(self, all_lines) ==
  IF self.skip_header_lines > Len(all_lines)
  THEN Return(<<>>)
  ELSE IF self.skip_header_lines = Len(all_lines)
  THEN Raise("IndexError", None)
  ELSE ParseRows(self, csv_row(all_lines[self.skip_header_lines + 1]),
                 SubSeq(all_lines, self.skip_header_lines + 2, Len(all_lines)),
                 <<>>)

\* GenericCSVImporter.parse on the lines f.readlines() gives (each without
\* its terminator).  The header is the first row the reader yields.
parse(self, all_lines) ==
  IF self.skip_header_lines >= Len(all_lines)
  THEN Return(<<>>)
  ELSE LET header == all_lines[self.skip_header_lines + 1]
           data_lines == SubSeq(all_lines, self.skip_header_lines + 2,
                                Len(all_lines))
       IN  ParseRows(self, csv_row(header), data_lines, <<>>)

(***************************************************************************)
(* Ledger Entry Formatter: GenericCSVImporter.to_beancount                 *)
(***************************************************************************)

DigitChar(n) ==
  CASE n = 0 -> "0" [] n = 1 -> "1" [] n = 2 -> "2" [] n = 3 -> "3"
    [] n = 4 -> "4" [] n = 5 -> "5" [] n = 6 -> "6" [] n = 7 -> "7"
    [] n = 8 -> "8" [] n = 9 -> "9"

\* str(n) for n >= 0
RECURSIVE IntToStr(_)
IntToStr(n) ==
  IF n < 10 THEN <<DigitChar(n)>>
  ELSE IntToStr(n \div 10) \o <<DigitChar(n % 10)>>

Zeros(k) == [i \in 1..k |-> "0"]

\* a %m or %d field of strftime: two digits
Pad2(n) == IF n < 10 THEN <<"0">> \o IntToStr(n) ELSE IntToStr(n)

\* date.strftime('%Y-%m-%d'); the C library's %Y does not pad the year.
strftime(d) ==
  IntToStr(d.year) \o <<"-">> \o Pad2(d.month) \o <<"-">> \o Pad2(d.day)

\* str(Decimal), which an f-string uses: plain notation when the exponent
\* is at most 0 and the number is not too small, scientific otherwise.
DecimalStr(v) ==
  LET sign == IF v.sign = 1 THEN <<"-">> ELSE <<>>
      int  == IntToStr(v.coef)
      leftdigits == v.exp + Len(int)
      dotplace == IF v.exp <= 0 /\ leftdigits > -6 THEN leftdigits ELSE 1
      intpart == IF dotplace <= 0 THEN <<"0">>
                 ELSE IF dotplace >= Len(int) THEN int \o Zeros(dotplace - Len(int))
                 ELSE SubSeq(int, 1, dotplace)
      fracpart == IF dotplace <= 0 THEN <<".">> \o Zeros(0 - dotplace) \o int
                  ELSE IF dotplace >= Len(int) THEN <<>>
                  ELSE <<".">> \o SubSeq(int, dotplace + 1, Len(int))
      e == leftdigits - dotplace
      exp == IF e = 0 THEN <<>>
             ELSE IF e > 0 THEN <<"E", "+">> \o IntToStr(e)
             ELSE <<"E", "-">> \o IntToStr(0 - e)
  IN  CASE v.kind = "finite"   -> sign \o intpart \o fracpart \o exp
        [] v.kind = "Infinity" -> sign \o <<"I", "n", "f", "i", "n", "i", "t", "y">>
        [] v.kind = "NaN"      -> sign \o <<"N", "a", "N">> \o
                                  (IF v.coef = 0 THEN <<>> ELSE int)
        [] v.kind = "sNaN"     -> sign \o <<"s", "N", "a", "N">> \o
                                  (IF v.coef = 0 THEN <<>> ELSE int)

\* A str or None inside an f-string.
Str(v) == IF v = None THEN <<"N", "o", "n", "e">> ELSE v

\* The comment lines of the metadata of a transaction, in the order of
\* txn['meta'].items().
MetaLines(meta) ==
  [i \in 1..Len(meta) |->
     <<" ", " ", ";", " ">> \o Str(meta[i][1]) \o <<":", " ">> \o Str(meta[i][2])]

\* The lines of the entry of one transaction.
entry_lines(self, txn) ==
  << strftime(txn.date) \o <<" ", "*", " ", "\"">> \o Str(self.institution)
       \o <<"\"", " ", "\"">> \o Str(txn.narration) \o <<"\"">> >>
  \o (IF self.account # <<>> /\ self.account # None
      THEN << <<" ", " ">> \o self.account \o <<" ", " ">>
                \o DecimalStr(txn.amount) \o <<" ", "U", "S", "D">> >>
      ELSE <<>>)
  \o (IF "meta" \in DOMAIN txn THEN MetaLines(txn.meta) ELSE <<>>)

\* GenericCSVImporter.to_beancount: one entry per transaction, its lines
\* joined by newlines.
to_beancount(self, transactions) ==
  Return([i \in 1..Len(transactions) |->
            Join(entry_lines(self, transactions[i]), "\n")])

(***************************************************************************)
(* IngestionRunner                                                         *)
(***************************************************************************)

UpperCase ==
  <<"A", "B", "C", "D", "E", "F", "G", "H", "I", "J", "K", "L", "M",
    "N", "O", "P", "Q", "R", "S", "T", "U", "V", "W", "X", "Y", "Z">>

LowerCase ==
  <<"a", "b", "c", "d", "e", "f", "g", "h", "i", "j", "k", "l", "m",
    "n", "o", "p", "q", "r", "s", "t", "u", "v", "w", "x", "y", "z">>

\* str.lower, for ASCII text
lower(s) ==
  [i \in 1..Len(s) |->
     IF \E k \in 1..26 : UpperCase[k] = s[i]
     THEN LowerCase[CHOOSE k \in 1..26 : UpperCase[k] = s[i]]
     ELSE s[i]]

\* str.replace(old, new) for one-character old and new
replace(s, old, new) == [i \in 1..Len(s) |-> IF s[i] = old THEN new ELSE s[i]]

\* Whether a file name matches a glob pattern of literal characters, `*`
\* and `?`.
RECURSIVE fnmatch(_, _)
fnmatch(name, pat) ==
  IF pat = <<>> THEN name = <<>>
  ELSE IF Head(pat) = "*"
  THEN fnmatch(name, Tail(pat)) \/ (name # <<>> /\ fnmatch(Tail(name), pat))
  ELSE IF name = <<>> THEN FALSE
  ELSE (Head(pat) = "?" \/ Head(pat) = Head(name)) /\ fnmatch(Tail(name), Tail(pat))

\* IngestionRunner._find_matching_files: the files of the data directory
\* whose name matches, in the order the directory yields them.
_find_matching_files(data_dir, pattern) ==
  LET Matches(e) == fnmatch(e.name, pattern)
  IN  SelectSeq(data_dir, Matches)

\* The loop with each entry followed by one newline only.
RECURSIVE WriteEntriesOneNewline(_)
WriteEntriesOneNewline(entries) ==
  IF entries = <<>> THEN <<>>
  ELSE Head(entries) \o <<"\n">> \o WriteEntriesOneNewline(Tail(entries))

\* The loop `for entry in beancount_entries: f.write(entry); f.write("\n\n")`
RECURSIVE WriteEntries(_)
WriteEntries(entries) ==
  IF entries = <<>> THEN <<>>
  ELSE Head(entries) \o <<"\n", "\n">> \o WriteEntries(Tail(entries))

\* The name of the output file of an institution.
output_file(config) ==
  lower(replace(config.institution, " ", "_")) \o <<"_", "i", "m", "p", "o",
      "r", "t", ".", "b", "e", "a", "n">>

\* What _write_output writes into the output file.
output_text(config, transactions, self) ==
  <<";", " ", "I", "m", "p", "o", "r", "t", "e", "d", " ", "t", "r", "a",
      "n", "s", "a", "c", "t", "i", "o", "n", "s", " ", "f", "r", "o", "m",
      " ">> \o config.institution \o <<"\n">>
    \o <<";", " ", "T", "o", "t", "a", "l", " ", "t", "r", "a", "n", "s",
        "a", "c", "t", "i", "o", "n", "s", ":",
        " ">> \o IntToStr(Len(transactions))
    \o <<"\n", "\n">> \o WriteEntries(to_beancount(self, transactions).val)

\* IngestionRunner._write_output: the output directory afterwards (the file
\* is created or truncated and written) and what is printed.
_write_output(output_dir, config, transactions, self) ==
  [output_dir |-> DictSet(output_dir, output_file(config),
                          output_text(config, transactions, self)),
   printed |-> << Printed("  Output written to: {output_file}", output_file(config)),
                  Printed("  Total: {len(transactions)} transaction(s)",
                          IntToStr(Len(transactions))) >>]

\* The body of the try statement of _process_csv and its except clause,
\* with the except clause emptying all_transactions.
extend_or_drop_all(transactions, file, all_transactions) ==
  IF transactions.ok
  THEN [all_transactions |-> all_transactions \o transactions.val,
        printed |-> << Printed("  Processing: {file_path.name}", file.name),
                       Printed("    Imported {len(transactions)} transaction(s)",
                               IntToStr(Len(transactions.val))) >>]
  ELSE [all_transactions |-> <<>>,
        printed |-> << Printed("  Processing: {file_path.name}", file.name),
                       Printed("    ERROR: {e}", transactions.exc) >>]

\* The body of the try statement of _process_csv and its except clause,
\* given what parse returned or raised: the transactions are added to
\* all_transactions; an exception is printed and nothing is added.
extend_or_report(transactions, file, all_transactions) ==
  IF transactions.ok
  THEN [all_transactions |-> all_transactions \o transactions.val,
        printed |-> << Printed("  Processing: {file_path.name}", file.name),
                       Printed("    Imported {len(transactions)} transaction(s)",
                               IntToStr(Len(transactions.val))) >>]
  ELSE [all_transactions |-> all_transactions,
        printed |-> << Printed("  Processing: {file_path.name}", file.name),
                       Printed("    ERROR: {e}", transactions.exc) >>]

\* One turn of the loop of _process_csv on a file.
process_file(self, file, all_transactions) ==
  extend_or_report(parse(self, file.lines), file, all_transactions)

\* run_single up to the point where it returns, raises or enters the loop
\* of _process_csv: where it goes (`to`), the exception if it raises, what
\* it prints, and the files and the importer of _process_csv.
run_single(config, data_dir) ==
  LET Leave(to, exc, out, files, self) ==
        [to |-> to, exc |-> exc, printed |-> out, matching_files |-> files,
         importer |-> self]
  IN
  IF ~IsDict(config)
  THEN Leave("raised", Raise("AttributeError", None), <<>>, <<>>, NoneValue)
  ELSE
  LET institution == ConfigGet(config, "institution", <<"U", "n", "k", "n",
      "o", "w", "n">>)
      driver_type == ConfigGet(config, "driver", "None")
      head == << Printed("\nProcessing: {institution}", institution),
                 Printed("Driver: {driver_type}", driver_type) >>
      valid == validate(config)
  IN
  IF ~valid.ok THEN Leave("raised", valid, head, <<>>, NoneValue)
  ELSE IF ~valid.val
  THEN Leave("run_all",  NoRet,
             Append(head, Printed("  ERROR: Invalid configuration for {institution}",
                                  institution)),
             <<>>, NoneValue)
  ELSE
  LET file_pattern == config.file_pattern
      matching_files == _find_matching_files(data_dir, file_pattern)
      found == Append(head, Printed("  Found {len(matching_files)} file(s)",
                                    IntToStr(Len(matching_files))))
  IN
  IF matching_files = <<>>
  THEN Leave("run_all", NoRet,
             Append(head, Printed("  No files found matching pattern: {file_pattern}",
                                  file_pattern)),
             <<>>, NoneValue)
  ELSE IF driver_type = "csv"
  THEN LET self == GenericCSVImporter(config)
       IN  IF self.ok
           THEN Leave("_process_csv", NoRet, found, matching_files, self.val)
           ELSE Leave("raised", self, found, <<>>, NoneValue)
  ELSE IF driver_type = "pdf"
  THEN Leave("run_all", NoRet,
             Append(found, Printed("  WARNING: PDF driver not yet implemented", None)),
             <<>>, NoneValue)
  ELSE IF driver_type = "api"
  THEN Leave("run_all", NoRet,
             Append(found, Printed("  WARNING: API driver not yet implemented", None)),
             <<>>, NoneValue)
  ELSE Leave("run_all", NoRet,
             Append(found, Printed("  ERROR: Unknown driver type: {driver_type}",
                                   driver_type)),
             <<>>, NoneValue)


(***************************************************************************)
(* InflationPlugin.generate_prices                                         *)
(***************************************************************************)

\* The days of the year y before its month m.
RECURSIVE DaysBeforeMonth(_, _)
DaysBeforeMonth(y, m) ==
  IF m = 1 THEN 0 ELSE DaysBeforeMonth(y, m - 1) + DaysInMonth(y, m - 1)

\* date.toordinal(): the day number, 0001-01-01 being day 1.
toordinal(d) ==
  LET y == d.year - 1
  IN  y * 365 + y \div 4 - y \div 100 + y \div 400
        + DaysBeforeMonth(d.year, d.month) + d.day

\* abs((d - base_date).days)
AbsDays(d, base_date) ==
  IF toordinal(d) >= toordinal(base_date)
  THEN toordinal(d) - toordinal(base_date)
  ELSE toordinal(base_date) - toordinal(d)

\* sorted(cpi_data.items()): the pairs in ascending order of their dates,
\* which are the keys of a dict and so differ from each other.
RECURSIVE sorted_items(_)
sorted_items(items) ==
  IF items = <<>> THEN <<>>
  ELSE LET i == CHOOSE i \in 1..Len(items) :
                  \A k \in 1..Len(items) :
                    toordinal(items[i][1]) <= toordinal(items[k][1])
       IN  <<items[i]>> \o
             sorted_items([k \in 1..(Len(items) - 1) |->
                             IF k < i THEN items[k] ELSE items[k + 1]])

\* min(sorted_dates, key=lambda d: abs((d - base_date).days)): the first of
\* the sorted dates with the least distance.
closest_date(cpi_data, base_date) ==
  LET sorted_dates == [k \in 1..Len(cpi_data) |-> sorted_items(cpi_data)[k][1]]
      i == CHOOSE i \in 1..Len(sorted_dates) :
             /\ \A k \in 1..Len(sorted_dates) :
                  AbsDays(sorted_dates[i], base_date) <= AbsDays(sorted_dates[k], base_date)
             /\ \A k \in 1..(i - 1) :
                  AbsDays(sorted_dates[k], base_date) > AbsDays(sorted_dates[i], base_date)
  IN  sorted_dates[i]

\* The precision of the default decimal context.
prec == 28

\* The digits of the text of a natural number, as numbers.
DigitsOfNat(n) == [i \in 1..Len(IntToStr(n)) |-> DigitVal(IntToStr(n)[i])]

\* The number a sequence of digits writes.
RECURSIVE NatOfDigits(_)
NatOfDigits(ds) ==
  IF ds = <<>> THEN 0
  ELSE 10 * NatOfDigits(SubSeq(ds, 1, Len(ds) - 1)) + ds[Len(ds)]

\* Long division of the remainder r by b: digits after the decimal point
\* until `need` significant digits are there, and the remainder left.
RECURSIVE FractionOf(_, _, _, _, _)
FractionOf(r, b, need, started, acc) ==
  IF need <= 0 THEN [digits |-> acc, rem |-> r]
  ELSE LET d == (10 * r) \div b
           significant == started \/ d # 0
       IN  FractionOf((10 * r) % b, b,
                      IF significant THEN need - 1 ELSE need,
                      significant, Append(acc, d))

\* A sequence of digits with one added to the number it writes.
RECURSIVE Increment(_)
Increment(ds) ==
  IF ds = <<>> THEN <<1>>
  ELSE IF ds[Len(ds)] < 9
  THEN [ds EXCEPT ![Len(ds)] = @ + 1]
  ELSE Append(Increment(SubSeq(ds, 1, Len(ds) - 1)), 0)

\* Decimal.__truediv__ in the default context: the quotient to 28
\* significant digits, rounded half-even; DivisionByZero and
\* InvalidOperation are trapped, so a zero divisor raises.  The coefficient
\* of the quotient is a sequence of digits; trailing zeros of an exact
\* quotient are kept, which does not change its value.
truediv(x, y) ==
  IF y.coef = 0
  THEN IF x.coef = 0 THEN Raise("InvalidOperation", None)
       ELSE Raise("DivisionByZero", None)
  ELSE IF x.coef = 0
  THEN Return([sign |-> (x.sign + y.sign) % 2, digits |-> <<0>>,
               exp |-> x.exp - y.exp])
  ELSE
  LET whole == x.coef \div y.coef
      f == FractionOf(x.coef % y.coef, y.coef,
                      IF whole > 0 THEN prec - Len(IntToStr(whole)) ELSE prec,
                      whole > 0, <<>>)
      ds == DigitsOfNat(whole) \o f.digits
      up == \/ 2 * f.rem > y.coef
            \/ 2 * f.rem = y.coef /\ ds[Len(ds)] % 2 = 1
  IN  Return([sign |-> (x.sign + y.sign) % 2,
              digits |-> IF up THEN Increment(ds) ELSE ds,
              exp |-> x.exp - y.exp - Len(f.digits)])

\* 10 ** n
RECURSIVE Pow10(_)
Pow10(n) == IF n = 0 THEN 1 ELSE 10 * Pow10(n - 1)

\* q.quantize(Decimal('0.01'), rounding=ROUND_HALF_UP): the digits beyond
\* the second decimal place are dropped and the coefficient goes up by one
\* when the first of them is 5 or more.
quantize(q) ==
  IF q.exp >= -2
  THEN DecimalValue("finite", q.sign, NatOfDigits(q.digits) * Pow10(q.exp + 2), -2)
  ELSE LET drop == -2 - q.exp
           kept == SubSeq(q.digits, 1, Len(q.digits) - drop)
           first == IF drop <= Len(q.digits)
                    THEN q.digits[Len(q.digits) - drop + 1] ELSE 0
       IN  DecimalValue("finite", q.sign,
                        NatOfDigits(kept) + (IF first >= 5 THEN 1 ELSE 0), -2)

\* The loop of generate_prices over the sorted items.
RECURSIVE PricesOf(_, _, _, _, _)
PricesOf(items, base_cpi, commodity, base_currency, prices) ==
  IF items = <<>> THEN Return(prices)
  ELSE LET q == truediv(items[1][2], base_cpi)
       IN  IF ~q.ok THEN q
           ELSE PricesOf(Tail(items), base_cpi, commodity, base_currency,
                         Append(prices,
                                [date |-> items[1][1], commodity |-> commodity,
                                 base_currency |-> base_currency,
                                 value |-> quantize(q.val)]))

\* InflationPlugin.generate_prices; cpi_data is a dict.
generate_prices(commodity, base_currency, cpi_data, base_date) ==
  IF cpi_data = <<>> THEN Return(<<>>)
  ELSE LET base == IF DictHas(cpi_data, base_date) THEN base_date
                   ELSE closest_date(cpi_data, base_date)
       IN  PricesOf(sorted_items(cpi_data), DictGet(cpi_data, base),
                    commodity, base_currency, <<>>)


(***************************************************************************)
(* InflationPlugin.calculate_inflation_rate                                *)
(***************************************************************************)

\* Decimal.__sub__ of two finite values whose difference has no more than
\* prec digits: the exact difference, at the smaller of the two exponents.
\* A zero that comes of two zeros is negative when it is (-0) - (+0), and a
\* zero that comes of a cancellation is positive.
sub(x, y) ==
  LET exp == IF x.exp <= y.exp THEN x.exp ELSE y.exp
      a == (IF x.sign = 1 THEN -1 ELSE 1) * x.coef * Pow10(x.exp - exp)
      b == (IF y.sign = 1 THEN -1 ELSE 1) * y.coef * Pow10(y.exp - exp)
      d == a - b
  IN  DecimalValue("finite",
                   IF d < 0 \/ (x.coef = 0 /\ y.coef = 0 /\ x.sign = 1 /\ y.sign = 0)
                   THEN 1 ELSE 0,
                   IF d < 0 THEN -d ELSE d, exp)

\* q.quantize(Decimal('0.0001'), rounding=ROUND_HALF_UP): the digits beyond
\* the fourth decimal place are dropped and the coefficient goes up by one
\* when the first of them is 5 or more.
quantize_rate(q) ==
  IF q.exp >= -4
  THEN DecimalValue("finite", q.sign, NatOfDigits(q.digits) * Pow10(q.exp + 4), -4)
  ELSE LET drop == -4 - q.exp
           kept == SubSeq(q.digits, 1, Len(q.digits) - drop)
           first == IF drop <= Len(q.digits)
                    THEN q.digits[Len(q.digits) - drop + 1] ELSE 0
       IN  DecimalValue("finite", q.sign,
                        NatOfDigits(kept) + (IF first >= 5 THEN 1 ELSE 0), -4)

\* InflationPlugin.calculate_inflation_rate without its test of cpi_start.
rate_without_zero_test(cpi_start, cpi_end) ==
  LET q == truediv(sub(cpi_end, cpi_start), cpi_start)
  IN  IF ~q.ok THEN q ELSE Return(quantize_rate(q.val))

\* InflationPlugin.calculate_inflation_rate on finite Decimal values.
calculate_inflation_rate(cpi_start, cpi_end) ==
  IF cpi_start.coef = 0 THEN Return(DecimalValue("finite", 0, 0, 0))
  ELSE LET q == truediv(sub(cpi_end, cpi_start), cpi_start)
       IN  IF ~q.ok THEN q ELSE Return(quantize_rate(q.val))


(***************************************************************************)
(* Bounds and inputs                                                       *)
(***************************************************************************)

\* The largest number of data lines of a modelled file.
MaxDataLines == 2

\* The largest configured skip_header_lines.
MaxSkip == 2

\* The largest number of separated fields of a modelled date string.
MaxDateFields == 3

\* The largest length of the amount strings enumerated exhaustively.
MaxAmountLen == 4

\* All sequences over S of length at most n.
SeqsUpTo(S, n) == UNION {[1..k -> S] : k \in 0..n}

ColD == <<"D">>
ColN == <<"N">>
ColA == <<"A">>
ColK == <<"K">>
ColM == <<"M">>
ColQ == <<"Q">>

Chase == <<"C", "h", "a", "s", "e">>

\* Column mappings: without metadata, and with metadata fields of which Q is
\* in no header and M, K are configured in the order opposite to the header's.
ColumnMappings ==
  { [date |-> ColD, narration |-> ColN, amount |-> ColA],
    [date |-> ColD, narration |-> ColN, amount |-> ColA,
     meta |-> <<ColM, ColQ, ColK>>] }

BaseConfigs ==
  { [institution |-> Chase, driver |-> "csv", file_pattern |-> "chase-*.csv",
     columns |-> c] : c \in ColumnMappings }

\* The valid configurations: the base configurations with neither optional
\* key, and with skip_header_lines 0..MaxSkip and account absent or set.
Configs ==
  BaseConfigs \cup
  { b @@ [skip_header_lines |-> n] @@ a :
      b \in BaseConfigs,
      n \in 0..MaxSkip,
      a \in {<<>>, [account |-> <<"A", "s", "s", "e", "t", "s", ":", "X">>]} }

HeaderLines ==
  { Join(<<<<"D">>, <<"N">>, <<"A">>>>, ","),
    Join(<<<<"D">>, <<"A">>, <<"N">>>>, ","),
    Join(<<<<"D">>, <<"N">>, <<"A">>, <<"K">>, <<"M">>>>, ","),
    Join(<<<<"N">>, <<"A">>>>, ",") }

\* Data lines: complete rows (with surplus fields for the short headers), a
\* row with a date and a row with an amount that do not parse, rows too
\* short for the header, and the blank line.
DataLines ==
  { Join(<<<<"2", "0", "2", "4", "-", "0", "1", "-", "1", "5">>, <<"G", "a", "s">>,
        <<"-", "4", "5", ".", "2", "3">>, <<"k", "1">>, <<"m", "1">>>>, ","),
    Join(<<<<"2", "0", "2", "4", "-", "1", "3", "-", "0", "1">>, <<"X">>, <<"1">>>>, ","),
    Join(<<<<"2", "0", "2", "4", "-", "0", "1", "-", "1", "6">>, <<"Y">>, <<"1", "x">>>>, ","),
    Join(<<<<"2", "0", "2", "4", "-", "0", "1", "-", "1", "7">>, <<"7", ".", "5", "0">>>>, ","),
    Join(<<<<"0", "3", "/", "0", "4", "/", "2", "0", "2", "4">>, <<"P", "a", "y">>,
          <<"(", "2", "5", "0", ".", "0", "0", ")">>, <<"k", "2">>>>, ","),
    <<>> }

\* Lines before the header.
Preambles == { <<>>, << <<"S", "t", "m", "t">> >> }

\* The file of test_parse_simple_csv_file, its header names shortened to the
\* configured D, N, A.
ExampleFile ==
  << Join(<<ColD, ColN, ColA>>, ","),
     Join(<< <<"2", "0", "2", "4", "-", "0", "1", "-", "1", "5">>,
             <<"G", "r", "o", "c", "e", "r", "y", " ", "S", "t", "o", "r", "e">>,
             <<"-", "4", "5", ".", "2", "3">> >>, ","),
     Join(<< <<"2", "0", "2", "4", "-", "0", "1", "-", "1", "6">>,
             <<"S", "a", "l", "a", "r", "y", " ", "D", "e", "p", "o", "s", "i", "t">>,
             <<"2", "5", "0", "0", ".", "0", "0">> >>, ","),
     Join(<< <<"2", "0", "2", "4", "-", "0", "1", "-", "1", "7">>,
             <<"G", "a", "s", " ", "S", "t", "a", "t", "i", "o", "n">>,
             <<"-", "3", "5", ".", "5", "0">> >>, ",") >>

\* The modelled file contents: the empty file, the example, and a preamble,
\* a header and up to MaxDataLines data lines.
Files ==
  {<<>>, ExampleFile} \cup
  { p \o <<h>> \o d : p \in Preambles, h \in HeaderLines,
                      d \in SeqsUpTo(DataLines, MaxDataLines) }

Paths == {"chase-2024.csv"}

\* The fields a date string is put together from.
DateFields ==
  { <<"0", "3">>, <<"0", "4">>, <<"3">>, <<"1", "5">>, <<"2", "0", "2", "4">>,
        <<"2", "0", "2", "3">>, <<"0", "2">>, <<"2", "9">>, <<"3", "1">>, <<"1", "3">>,
        <<"0", "0", "0", "0">>, <<" ", "5">> }

\* A date string of the fields fl joined by the separators sp.
RECURSIVE JoinWith(_, _)
JoinWith(fl, sp) ==
  IF Len(fl) = 1 THEN fl[1]
  ELSE fl[1] \o <<sp[1]>> \o JoinWith(Tail(fl), Tail(sp))

\* The date strings: up to MaxDateFields fields joined by slashes and
\* dashes, some strings that are no date, and None.
DateInputs ==
  { JoinWith(fl, sp) :
      <<fl, sp>> \in UNION { [1..n -> DateFields] \X [1..(n - 1) -> {"/", "-"}] :
                             n \in 1..MaxDateFields } }
  \cup { <<>>, None, <<"2", "0", "2", "4", "-", "0", "1", "-", "1", "5", " ">>,
        <<"b", "a", "d">>, <<"2", "0", "2", "4", "-", "0", "1", "-", "1", "5", "5">> }

AmountAlphabet == {"1", "0", ".", "-", "+", "(", ")", "$", ",", " "}

\* The amount strings: every string over the alphabet up to MaxAmountLen,
\* the examples of the tests and the specification, and None.
AmountInputs ==
  SeqsUpTo(AmountAlphabet, MaxAmountLen)
  \cup { <<"$", "1", ",", "2", "3", "4", ".", "5", "6">>, <<"(", "4", "5", ".", "2", "3", ")">>,
        <<"-", "4", "5", ".", "2", "3">>, <<"2", "5", "0", "0", ".", "0", "0">>,
        <<"-", "3", "5", ".", "5", "0">>, <<"<euro>", "5", ".", "5">>,
        <<"(", "<pound>", "1", ",", "0", "0", "0", ")">>, <<"<yen>", " ", "7">>,
        <<"<rupee>", "1", "2">>, <<"1", "x">>, <<"N", "a", "N">>, <<"1", "e", "3">>,
        <<"I", "n", "f", "i", "n", "i", "t", "y">>, None }

(***************************************************************************)
(* The importer driven by its caller                                       *)
(***************************************************************************)

NoCall == [call |-> "<none>", arg |-> None, ret |-> NoRet]

\* The local variables of the runner outside a run.
NoFrame ==
  [configs |-> <<>>, i |-> 0, matching_files |-> <<>>, j |-> 0,
   all_transactions |-> <<>>]

\* No IngestionRunner is at work: the directories are empty and nothing
\* has been printed.
NoRunner ==
  /\ dirs = [config_dir |-> <<>>, data_dir |-> <<>>, output_dir |-> <<>>]
  /\ pc = "<none>"
  /\ frame = NoFrame
  /\ printed = <<>>

\* An importer has been constructed from a valid configuration; no method
\* has been called yet.
Init ==
  /\ loaded_config \in Configs
  /\ importer = GenericCSVImporter(loaded_config).val
  /\ fs \in [Paths -> Files]
  /\ call = "<none>"
  /\ arg = None
  /\ ret = NoRet
  /\ prev = NoCall
  /\ NoRunner

\* A call of parse that counts its calls in skip_header_lines.
ParseCallCounting(file_path) ==
  /\ call' = "parse"
  /\ arg' = file_path
  /\ ret' = parse(importer, fs[file_path])
  /\ prev' = [call |-> call, arg |-> arg, ret |-> ret]
  /\ importer' = [importer EXCEPT !.skip_header_lines = (@ + 1) % (MaxSkip + 2)]
  /\ UNCHANGED <<loaded_config, fs>>
  /\ UNCHANGED runner_vars

\* importer.parse(file_path): reads the file, assigns no field of self.
ParseCall(file_path) ==
  /\ call' = "parse"
  /\ arg' = file_path
  /\ ret' = parse(importer, fs[file_path])
  /\ prev' = [call |-> call, arg |-> arg, ret |-> ret]
  /\ UNCHANGED <<loaded_config, importer, fs>>
  /\ UNCHANGED runner_vars

\* importer.to_beancount(transactions) on the transactions the last parse
\* returned, as the runner and the tests call it; assigns no field of self.
ToBeancountCall ==
  /\ call = "parse"
  /\ ret.ok
  /\ call' = "to_beancount"
  /\ arg' = ret.val
  /\ ret' = to_beancount(importer, ret.val)
  /\ prev' = [call |-> call, arg |-> arg, ret |-> ret]
  /\ UNCHANGED <<loaded_config, importer, fs>>
  /\ UNCHANGED runner_vars

Next ==
  \/ \E file_path \in Paths : ParseCall(file_path)
  \/ ToBeancountCall

Spec == Init /\ [][Next]_vars

(***************************************************************************)
(* The normalisers applied to bounded inputs                               *)
(***************************************************************************)

ExampleConfig ==
  [institution |-> Chase, driver |-> "csv", file_pattern |-> "chase-*.csv",
   columns |-> [date |-> ColD, narration |-> ColN, amount |-> ColA]]

\* An importer and an argument drawn from the inputs, before the call.
InitWith(inputs) ==
  /\ loaded_config = ExampleConfig
  /\ importer = GenericCSVImporter(loaded_config).val
  /\ fs = [p \in Paths |-> <<>>]
  /\ call = "<none>"
  /\ arg \in inputs
  /\ ret = NoRet
  /\ prev = NoCall
  /\ NoRunner

InitDate == InitWith(DateInputs)

\* importer._parse_date(arg)
ParseDateCall ==
  /\ call = "<none>"
  /\ call' = "_parse_date"
  /\ ret' = _parse_date(arg)
  /\ UNCHANGED <<loaded_config, importer, fs, arg, prev>>
  /\ UNCHANGED runner_vars

NextDate == ParseDateCall

SpecDate == InitDate /\ [][NextDate]_vars

InitAmount == InitWith(AmountInputs)

\* importer._parse_amount(arg)
ParseAmountCall ==
  /\ call = "<none>"
  /\ call' = "_parse_amount"
  /\ ret' = _parse_amount(arg)
  /\ UNCHANGED <<loaded_config, importer, fs, arg, prev>>
  /\ UNCHANGED runner_vars

NextAmount == ParseAmountCall

SpecAmount == InitAmount /\ [][NextAmount]_vars

(***************************************************************************)
(* The formatter applied to the transactions of bounded files              *)
(***************************************************************************)

\* The largest number of transactions handed to to_beancount.
MaxTxns == 2

Checking == <<"A", "s", "s", "e", "t", "s", ":", "U", "S", ":", "C", "h", "a", "s", "e">>

\* The configurations of the formatter: account unset or set, metadata
\* configured or not.
FormatConfigs ==
  { b @@ a : b \in BaseConfigs, a \in {<<>>, [account |-> Checking]} }

\* The rows the formatted transactions come from: the row of
\* test_convert_to_beancount_format, a row with metadata, a row dated in
\* the year 999, a row with an empty narration and a row too short for the
\* narration column.
FormatLines ==
  { Join(<< <<"2", "0", "2", "4", "-", "0", "1", "-", "1", "5">>,
            <<"G", "r", "o", "c", "e", "r", "y", " ", "S", "t", "o", "r", "e">>,
            <<"-", "4", "5", ".", "2", "3">> >>, ","),
    Join(<< <<"1", "2", "/", "3", "1", "/", "2", "0", "2", "3">>, <<"P", "a", "y">>,
            <<"(", "2", "5", "0", ".", "0", "0", ")">>, <<"k", "2">>,
            <<"m", "2">> >>, ","),
    Join(<< <<"0", "9", "9", "9", "-", "0", "1", "-", "1", "5">>, <<"O", "l", "d">>,
            <<"1">> >>, ","),
    Join(<< <<"2", "0", "2", "4", "-", "0", "2", "-", "0", "9">>, <<>>,
            <<"1", "e", "3">> >>, ","),
    Join(<< <<"2", "0", "2", "4", "-", "0", "1", "-", "1", "7">>,
            <<"7", ".", "5", "0">> >>, ",") }

\* The header of the files the formatted transactions are parsed from.
FormatHeaders ==
  { Join(<<ColD, ColN, ColA, ColK, ColM>>, ","),
    Join(<<ColD, ColA, ColN>>, ",") }

\* The files the formatted transactions are parsed from.
FormatFiles ==
  { <<h>> \o d : h \in FormatHeaders, d \in SeqsUpTo(FormatLines, MaxTxns) }

\* The transaction lists the importer's parse of such a file returns.
TransactionLists(self) ==
  { parse(self, f).val : f \in {g \in FormatFiles : parse(self, g).ok} }

\* The transactions of a record with a quoted field that holds a line
\* break, `2024-01-15,"Two<newline>Lines",1,k2,m2`: csv.DictReader reads
\* the two lines of the file as one row, whose narration keeps the newline.
QuotedRowLists(self) ==
  { << _parse_row(self,
                  DictReaderRow(<<ColD, ColN, ColA, ColK, ColM>>,
                                << <<"2", "0", "2", "4", "-", "0", "1", "-", "1", "5">>,
                                   <<"T", "w", "o", "\n", "L", "i", "n", "e", "s">>,
                                   <<"1">>, <<"k", "2">>, <<"m", "2">> >>)).val >> }

\* An importer and the transactions of a parse, before to_beancount.
InitBeancount ==
  /\ loaded_config \in FormatConfigs
  /\ importer = GenericCSVImporter(loaded_config).val
  /\ fs = [p \in Paths |-> <<>>]
  /\ call = "<none>"
  /\ arg \in TransactionLists(importer) \cup QuotedRowLists(importer)
  /\ ret = NoRet
  /\ prev = NoCall
  /\ NoRunner

\* importer.to_beancount(arg)
ToBeancountOf ==
  /\ call = "<none>"
  /\ call' = "to_beancount"
  /\ ret' = to_beancount(importer, arg)
  /\ UNCHANGED <<loaded_config, importer, fs, arg, prev>>
  /\ UNCHANGED runner_vars

NextBeancount == ToBeancountOf

SpecBeancount == InitBeancount /\ [][NextBeancount]_vars


(***************************************************************************)
(* Construction and validation applied to bounded configurations           *)
(***************************************************************************)

\* The mapping f cut down to the keys in K.
Restrict(f, K) == [k \in K |-> f[k]]

\* The values of `columns`: a mapping with any of the keys date, narration,
\* amount and meta, None, and a list of names.
ColumnsInputs ==
  { Restrict([date |-> ColD, narration |-> ColN, amount |-> ColA,
              meta |-> <<ColK>>], K) :
      K \in SUBSET {"date", "narration", "amount", "meta"} }
  \cup { NoneValue, ListValue({}), ListValue({"date", "narration", "amount"}) }

\* The configurations handed to the constructor and to validate: dicts
\* with any of the required and optional keys present and a driver that is
\* "csv" or not.
ConfigInputs ==
  { Restrict([institution |-> Chase, driver |-> d, file_pattern |-> "chase-*.csv",
              columns |-> c, skip_header_lines |-> 1, account |-> Checking], K) :
      d \in {"csv", "pdf"}, c \in ColumnsInputs,
      K \in SUBSET {"institution", "driver", "file_pattern", "columns",
                    "skip_header_lines", "account"} }

\* A configuration, before anything is done with it.
InitConfig ==
  /\ loaded_config \in ConfigInputs
  /\ importer = NoneValue
  /\ fs = [p \in Paths |-> <<>>]
  /\ call = "<none>"
  /\ arg = None
  /\ ret = NoRet
  /\ prev = NoCall
  /\ NoRunner

\* GenericCSVImporter(loaded_config)
ConstructCall ==
  /\ call = "<none>"
  /\ call' = "GenericCSVImporter"
  /\ ret' = GenericCSVImporter(loaded_config)
  /\ importer' = IF ret'.ok THEN ret'.val ELSE importer
  /\ UNCHANGED <<loaded_config, fs, arg, prev>>
  /\ UNCHANGED runner_vars

\* ConfigLoader().validate(loaded_config)
ValidateCall ==
  /\ call = "<none>"
  /\ call' = "validate"
  /\ ret' = validate(loaded_config)
  /\ UNCHANGED <<loaded_config, importer, fs, arg, prev>>
  /\ UNCHANGED runner_vars

NextConfig == ConstructCall \/ ValidateCall

SpecConfig == InitConfig /\ [][NextConfig]_vars


(***************************************************************************)
(* A run of IngestionRunner.run_all over bounded directories               *)
(***************************************************************************)

\* The largest number of files in the configuration directory.
MaxConfigFiles == 2

\* The largest number of files in the data directory.
MaxDataFiles == 2

BigBank == <<"B", "i", "g", " ", "B", "a", "n", "k">>

\* The configuration of test_convert_to_beancount_format, its columns
\* named D, N, A.
ChaseConfig ==
  [institution |-> Chase, driver |-> "csv", file_pattern |-> <<"c", "h", "a",
      "s", "e", "-", "*", ".", "c", "s", "v">>,
   skip_header_lines |-> 0, account |-> Checking,
   columns |-> [date |-> ColD, narration |-> ColN, amount |-> ColA]]

\* A second institution, whose pattern matches every csv file and which
\* has no account.
BigBankConfig ==
  [institution |-> BigBank, driver |-> "csv", file_pattern |-> <<"*", ".",
      "c", "s", "v">>,
   columns |-> [date |-> ColD, narration |-> ColN, amount |-> ColA]]

\* What the YAML files of the configuration directory hold: the two valid
\* configurations, a configuration with a required column missing, one
\* with `columns:` left empty, and one with a driver that is not known.
LoadedConfigs ==
  { ChaseConfig, BigBankConfig,
    [ChaseConfig EXCEPT !.columns = [date |-> ColD, narration |-> ColN]],
    [ChaseConfig EXCEPT !.columns = NoneValue],
    [ChaseConfig EXCEPT !.driver = "xls"] }

\* The files of the configuration directory, without their names: YAML
\* files that load, a malformed one, one that is gone when it is loaded,
\* and a file that is no YAML file.
ConfigFiles ==
  { [suffix |-> <<".", "y", "a", "m", "l">>, exists |-> TRUE,
      malformed |-> FALSE, config |-> c] :
      c \in LoadedConfigs }
  \cup { [suffix |-> <<".", "y", "m", "l">>, exists |-> TRUE,
      malformed |-> TRUE, config |-> NoneValue],
         [suffix |-> <<".", "y", "m", "l">>, exists |-> FALSE,
             malformed |-> FALSE,
          config |-> ChaseConfig],
         [suffix |-> <<".", "t", "x", "t">>, exists |-> TRUE,
             malformed |-> FALSE,
          config |-> BigBankConfig] }

\* The configuration directories: up to MaxConfigFiles files of different
\* kinds, named a, b, ... in the order of os.listdir, and a path that is no
\* directory.
ConfigDirs ==
  { [is_dir |-> TRUE,
     entries |-> [i \in 1..n |->
                    [filename |-> <<LowerCase[i]>> \o f[i].suffix,
                     exists |-> f[i].exists, malformed |-> f[i].malformed,
                     config |-> f[i].config]]] :
      <<n, f>> \in UNION { {k} \X {g \in [1..k -> ConfigFiles] :
                                        \A i, j \in 1..k : g[i] = g[j] => i = j} :
                            k \in 0..MaxConfigFiles } }
  \cup { [is_dir |-> FALSE, entries |-> <<>>] }

\* A file whose second row has an amount that does not parse.
BadFile ==
  << Join(<<ColD, ColN, ColA>>, ","),
     Join(<< <<"2", "0", "2", "4", "-", "0", "2", "-", "0", "1">>, <<"R",
         "e", "n", "t">>, <<"-", "9", "0", "0">> >>, ","),
     Join(<< <<"2", "0", "2", "4", "-", "0", "2", "-", "0", "2">>, <<"F",
         "e", "e">>, <<"1", "x">> >>, ",") >>

\* A file with one row.
SmallFile ==
  << Join(<<ColD, ColN, ColA>>, ","),
     Join(<< <<"0", "3", "/", "0", "4", "/", "2", "0", "2", "4">>, <<"P",
         "a", "y">>, <<"(", "2", "5", "0", ".", "0", "0", ")">> >>, ",") >>

\* The files of the data directory, without the number in their names.
DataFiles ==
  { [prefix |-> <<"c", "h", "a", "s", "e", "-">>, lines |-> ExampleFile],
    [prefix |-> <<"c", "h", "a", "s", "e", "-">>, lines |-> BadFile],
    [prefix |-> <<"b", "a", "n", "k", "-">>, lines |-> SmallFile] }

\* The data directories: up to MaxDataFiles files of different kinds,
\* numbered in the order the directory yields them.
DataDirs ==
  { [i \in 1..n |-> [name |-> f[i].prefix \o IntToStr(i) \o <<".", "c", "s",
      "v">>,
                     lines |-> f[i].lines]] :
      <<n, f>> \in UNION { {k} \X {g \in [1..k -> DataFiles] :
                                        \A i, j \in 1..k : g[i] = g[j] => i = j} :
                            k \in 0..MaxDataFiles } }

\* An IngestionRunner has been constructed; run_all has not been called.
InitRunner ==
  /\ loaded_config = NoneValue
  /\ importer = NoneValue
  /\ fs = [p \in Paths |-> <<>>]
  /\ call = "<none>"
  /\ arg = None
  /\ ret = NoRet
  /\ prev = NoCall
  /\ dirs \in { [config_dir |-> c, data_dir |-> d, output_dir |-> <<>>] :
                c \in ConfigDirs, d \in DataDirs }
  /\ pc = "start"
  /\ frame = NoFrame
  /\ printed = <<>>

\* run_all up to its loop: the configurations are loaded.
RunAll ==
  /\ pc = "start"
  /\ \E configs \in {load_all_from_directory(dirs.config_dir)},
        loading \in {Printed("Loading configurations from: {self.config_dir}", None)} :
         IF configs.ok
         THEN /\ frame' = [frame EXCEPT !.configs = configs.val.configs, !.i = 1]
              /\ printed' = <<loading>> \o configs.val.printed \o
                              << Printed("Found {len(configs)} configuration(s)",
                                         IntToStr(Len(configs.val.configs))) >>
              /\ pc' = "run_all"
              /\ ret' = ret
         ELSE /\ frame' = frame
              /\ printed' = <<loading>>
              /\ pc' = "raised"
              /\ ret' = configs
  /\ call' = "run_all"
  /\ UNCHANGED <<loaded_config, importer, fs, arg, prev, dirs>>

\* One turn of the loop of run_all: run_single(config) until it returns,
\* raises or has constructed the importer of _process_csv.
RunSingle ==
  /\ pc = "run_all"
  /\ frame.i <= Len(frame.configs)
  /\ \E r \in {run_single(frame.configs[frame.i], dirs.data_dir)} :
         /\ loaded_config' = frame.configs[frame.i]
         /\ printed' = printed \o r.printed
         /\ pc' = r.to
         /\ importer' = r.importer
         /\ ret' = IF r.to = "raised" THEN r.exc ELSE ret
         /\ frame' = IF r.to = "_process_csv"
                     THEN [frame EXCEPT !.matching_files = r.matching_files,
                                        !.j = 1, !.all_transactions = <<>>]
                     ELSE IF r.to = "run_all"
                     THEN [frame EXCEPT !.i = @ + 1]
                     ELSE frame
  /\ UNCHANGED <<fs, call, arg, prev, dirs>>

\* One turn of the loop of _process_csv.
ProcessFile ==
  /\ pc = "_process_csv"
  /\ frame.j <= Len(frame.matching_files)
  /\ \E r \in {process_file(importer, frame.matching_files[frame.j],
                              frame.all_transactions)} :
         /\ frame' = [frame EXCEPT !.all_transactions = r.all_transactions,
                                   !.j = @ + 1]
         /\ printed' = printed \o r.printed
  /\ UNCHANGED <<loaded_config, importer, fs, call, arg, ret, prev, dirs, pc>>

\* The end of _process_csv with the output written whether or not a
\* transaction was collected.
FinishProcessCsvAlwaysWrites ==
  /\ pc = "_process_csv"
  /\ frame.j > Len(frame.matching_files)
  /\ \E w \in {_write_output(dirs.output_dir, loaded_config,
                               frame.all_transactions, importer)} :
         /\ dirs' = [dirs EXCEPT !.output_dir = w.output_dir]
         /\ printed' = printed \o w.printed
  /\ pc' = "run_all"
  /\ frame' = [frame EXCEPT !.i = @ + 1]
  /\ UNCHANGED <<loaded_config, importer, fs, call, arg, ret, prev>>

\* The end of _process_csv: the output is written if any transaction was
\* collected, and run_single returns to the loop of run_all.
FinishProcessCsv ==
  /\ pc = "_process_csv"
  /\ frame.j > Len(frame.matching_files)
  /\ IF frame.all_transactions # <<>>
     THEN \E w \in {_write_output(dirs.output_dir, loaded_config,
                                    frame.all_transactions, importer)} :
              /\ dirs' = [dirs EXCEPT !.output_dir = w.output_dir]
              /\ printed' = printed \o w.printed
     ELSE UNCHANGED <<dirs, printed>>
  /\ pc' = "run_all"
  /\ frame' = [frame EXCEPT !.i = @ + 1]
  /\ UNCHANGED <<loaded_config, importer, fs, call, arg, ret, prev>>

\* run_all returns after the last configuration.
RunAllReturn ==
  /\ pc = "run_all"
  /\ frame.i > Len(frame.configs)
  /\ pc' = "done"
  /\ ret' = Return(None)
  /\ UNCHANGED <<loaded_config, importer, fs, call, arg, prev, dirs, frame, printed>>

NextRunner ==
  \/ RunAll
  \/ RunSingle
  \/ ProcessFile
  \/ FinishProcessCsv
  \/ RunAllReturn

SpecRunner == InitRunner /\ [][NextRunner]_vars


(***************************************************************************)
(* A run of run_all over an output directory that may hold earlier output  *)
(***************************************************************************)

\* A third institution, whose name differs from Big Bank's in its capital
\* letters only.
LowerBankConfig ==
  [institution |-> <<"b", "i", "g", " ", "b", "a", "n", "k">>,
      driver |-> "csv",
   file_pattern |-> <<"b", "a", "n", "k", "-", "*", ".", "c", "s", "v">>,
   columns |-> [date |-> ColD, narration |-> ColN, amount |-> ColA]]

\* The configurations of a later run.
RerunConfigs == {ChaseConfig, BigBankConfig, LowerBankConfig}

\* The configuration directories of a later run: one or two YAML files
\* with different configurations, in the order of os.listdir.
RerunConfigDirs ==
  { [is_dir |-> TRUE,
     entries |-> [i \in 1..n |->
                    [filename |-> <<LowerCase[i]>> \o <<".", "y", "a", "m",
                        "l">>,
                     exists |-> TRUE, malformed |-> FALSE, config |-> f[i]]]] :
      <<n, f>> \in UNION { {k} \X {g \in [1..k -> RerunConfigs] :
                                        \A i, j \in 1..k : g[i] = g[j] => i = j} :
                            k \in 1..2 } }

\* A file with a header and no rows, as in test_parse_empty_csv_file.
HeaderOnlyFile == << Join(<<ColD, ColN, ColA>>, ",") >>

\* The files of the data directory of a later run, without the number in
\* their names.
RerunDataFiles ==
  { [prefix |-> <<"c", "h", "a", "s", "e", "-">>, lines |-> ExampleFile],
    [prefix |-> <<"c", "h", "a", "s", "e", "-">>, lines |-> BadFile],
    [prefix |-> <<"c", "h", "a", "s", "e", "-">>, lines |-> HeaderOnlyFile],
    [prefix |-> <<"b", "a", "n", "k", "-">>, lines |-> SmallFile] }

\* The data directories of a later run: up to two files of different
\* kinds, numbered in the order the directory yields them.
RerunDataDirs ==
  { [i \in 1..n |-> [name |-> f[i].prefix \o IntToStr(i) \o <<".", "c", "s",
      "v">>,
                     lines |-> f[i].lines]] :
      <<n, f>> \in UNION { {k} \X {g \in [1..k -> RerunDataFiles] :
                                        \A i, j \in 1..k : g[i] = g[j] => i = j} :
                            k \in 0..2 } }

\* What an earlier run left in the output file of Chase.
EarlierOutput == <<";", " ", "I", "m", "p", "o", "r", "t", "e", "d", " ",
    "t", "r", "a", "n", "s", "a", "c", "t", "i", "o", "n", "s", " ", "f",
    "r", "o", "m", " ", "C", "h", "a", "s", "e", "\n", ";", " ", "T", "o",
    "t", "a", "l", " ", "t", "r", "a", "n", "s", "a", "c", "t", "i", "o",
    "n", "s", ":", " ", "0", "\n", "\n">>

\* The output directories before a run: empty, or with the output file of
\* Chase from an earlier run.
OutputDirs == { <<>>, << <<<<"c", "h", "a", "s", "e", "_", "i", "m", "p",
    "o", "r", "t", ".", "b", "e", "a", "n">>, EarlierOutput>> >> }

\* An IngestionRunner has been constructed over an output directory that
\* may hold the output of an earlier run; run_all has not been called.
InitRerun ==
  /\ loaded_config = NoneValue
  /\ importer = NoneValue
  /\ fs = [p \in Paths |-> <<>>]
  /\ call = "<none>"
  /\ arg = None
  /\ ret = NoRet
  /\ prev = NoCall
  /\ dirs \in { [config_dir |-> c, data_dir |-> d, output_dir |-> o] :
                c \in RerunConfigDirs, d \in RerunDataDirs, o \in OutputDirs }
  /\ pc = "start"
  /\ frame = NoFrame
  /\ printed = <<>>

SpecRerun == InitRerun /\ [][NextRunner]_vars


(***************************************************************************)
(* generate_prices applied to bounded CPI data                             *)
(***************************************************************************)

\* The largest number of data points of the CPI data.
MaxPoints == 2

\* The dates of the data points: two that are two days apart and one in
\* another month.
CpiDates == {Date(2024, 1, 1), Date(2024, 1, 3), Date(2024, 3, 1)}

\* The base dates: dates of data points, the day between the first two,
\* and a day of the year before.
BaseDates == {Date(2024, 1, 1), Date(2024, 3, 1), Date(2024, 1, 2), Date(2023, 12, 31)}

\* The CPI values: Decimal("300.0") and Decimal("306.0") of
\* test_generate_synthetic_currency_prices, Decimal("200") and
\* Decimal("201"), whose quotient 1.005 lies halfway between two prices,
\* and Decimal("0").
CpiValues ==
  { DecimalValue("finite", 0, 3000, -1), DecimalValue("finite", 0, 3060, -1),
    DecimalValue("finite", 0, 200, 0), DecimalValue("finite", 0, 201, 0),
    DecimalValue("finite", 0, 0, 0) }

\* The CPI data: dicts of up to MaxPoints data points in any insertion
\* order.
CpiData ==
  { [i \in 1..n |-> <<d[i], v[i]>>] :
      <<n, d, v>> \in UNION { {k} \X {f \in [1..k -> CpiDates] :
                                        \A i, j \in 1..k : f[i] = f[j] => i = j}
                                  \X [1..k -> CpiValues] : k \in 0..MaxPoints } }

IUSD == <<"I", "-", "U", "S", "D">>
USD == <<"U", "S", "D">>

\* CPI data and a base date; generate_prices has not been called.
InitPrices ==
  /\ loaded_config = NoneValue
  /\ importer = NoneValue
  /\ fs = [p \in Paths |-> <<>>]
  /\ call = "<none>"
  /\ arg \in { [cpi_data |-> c, base_date |-> b] : c \in CpiData, b \in BaseDates }
  /\ ret = NoRet
  /\ prev = NoCall
  /\ NoRunner

\* InflationPlugin().generate_prices("I-USD", "USD", cpi_data, base_date)
GeneratePricesCall ==
  /\ call = "<none>"
  /\ call' = "generate_prices"
  /\ ret' = generate_prices(IUSD, USD, arg.cpi_data, arg.base_date)
  /\ UNCHANGED <<loaded_config, importer, fs, arg, prev>>
  /\ UNCHANGED runner_vars

NextPrices == GeneratePricesCall

SpecPrices == InitPrices /\ [][NextPrices]_vars


(***************************************************************************)
(* calculate_inflation_rate applied to pairs of CPI values                 *)
(***************************************************************************)

\* The CPI values of a rate: Decimal("300.0") and Decimal("306.0") of
\* test_calculate_inflation_rate; the zeros Decimal("0"), Decimal("0.0")
\* and Decimal("-0"); 19999, 20000 and 20001, whose rates lie halfway
\* between two values of four places; small values whose rates do not end;
\* and negative values.
RateValues ==
  { DecimalValue("finite", 0, 3000, -1), DecimalValue("finite", 0, 3060, -1),
    DecimalValue("finite", 0, 0, 0), DecimalValue("finite", 0, 0, -1),
    DecimalValue("finite", 1, 0, 0),
    DecimalValue("finite", 0, 19999, 0), DecimalValue("finite", 0, 20000, 0),
    DecimalValue("finite", 0, 20001, 0),
    DecimalValue("finite", 0, 3, 0), DecimalValue("finite", 0, 7, 0),
    DecimalValue("finite", 1, 3, 0), DecimalValue("finite", 1, 3000, -1) }

\* Two CPI values; calculate_inflation_rate has not been called.
InitRate ==
  /\ loaded_config = NoneValue
  /\ importer = NoneValue
  /\ fs = [p \in Paths |-> <<>>]
  /\ call = "<none>"
  /\ arg \in { [cpi_start |-> s, cpi_end |-> e] : s \in RateValues, e \in RateValues }
  /\ ret = NoRet
  /\ prev = NoCall
  /\ NoRunner

\* InflationPlugin().calculate_inflation_rate(cpi_start, cpi_end)
CalculateInflationRateCall ==
  /\ call = "<none>"
  /\ call' = "calculate_inflation_rate"
  /\ ret' = calculate_inflation_rate(arg.cpi_start, arg.cpi_end)
  /\ UNCHANGED <<loaded_config, importer, fs, arg, prev>>
  /\ UNCHANGED runner_vars

NextRate == CalculateInflationRateCall

SpecRate == InitRate /\ [][NextRate]_vars


(***************************************************************************)
(* What the rows of a file hold, read off the text of the file             *)
(***************************************************************************)

\* The lines of the file the last parse read.
ParsedLines == fs[arg]

\* Whether the file has a header line at index skip_header_lines.
HasHeader == importer.skip_header_lines < Len(ParsedLines)

\* The names in the header line.
HeaderNames == csv_row(ParsedLines[importer.skip_header_lines + 1])

\* The lines after the header line.
LinesAfterHeader ==
  SubSeq(ParsedLines, importer.skip_header_lines + 2, Len(ParsedLines))

IsNotBlank(line) == line # <<>>

\* The records of the file: the fields of the lines after the header that
\* are not blank, in file order.
Records ==
  LET lines == SelectSeq(LinesAfterHeader, IsNotBlank)
  IN  [i \in 1..Len(lines) |-> csv_row(lines[i])]

\* The record holds a field under the header name.
HasField(record, name) ==
  \E k \in 1..Len(HeaderNames) : HeaderNames[k] = name /\ k <= Len(record)

\* The text of that field (the modelled headers repeat no name).
FieldOf(record, name) ==
  record[CHOOSE k \in 1..Len(HeaderNames) : HeaderNames[k] = name]

\* The configured date, narration and amount field names.
MappedFields ==
  {importer.columns.date, importer.columns.narration, importer.columns.amount}

IsStr(v) == v # None

(***************************************************************************)
(* C1                                                                      *)
(***************************************************************************)

\* C1: every transaction that parse returns is fully populated: its date is
\* a calendar date, its narration is a string taken from the row and its
\* amount is a decimal number; a record that lacks one of the three
\* configured fields makes parse fail.
C1_FullyPopulated ==
  (call = "parse" /\ ret.ok) =>
     /\ \A i \in 1..Len(ret.val) :
          /\ ret.val[i].date.month \in 1..12
          /\ ret.val[i].date.day \in 1..DaysInMonth(ret.val[i].date.year,
                                                    ret.val[i].date.month)
          /\ IsStr(ret.val[i].narration)
          /\ ret.val[i].amount.kind = "finite"
     /\ HasHeader =>
          \A i \in 1..Len(Records) :
            \A name \in MappedFields : HasField(Records[i], name)

(***************************************************************************)
(* C3, C4: the date normaliser                                             *)
(***************************************************************************)

\* The six patterns in the order the specification gives them: the order
\* of year, month and day in the text, and the separator.
ClaimedPatterns ==
  << [order |-> <<"year", "month", "day">>, sep |-> "-"],
     [order |-> <<"month", "day", "year">>, sep |-> "/"],
     [order |-> <<"day", "month", "year">>, sep |-> "/"],
     [order |-> <<"year", "month", "day">>, sep |-> "/"],
     [order |-> <<"day", "month", "year">>, sep |-> "-"],
     [order |-> <<"month", "day", "year">>, sep |-> "-"] >>

\* The positions of the separator in the text.
SepPositions(s, sep) == {i \in 1..Len(s) : s[i] = sep}

\* The three fields of a text with exactly two separators.
FieldsOf(s, sep) ==
  LET i == CHOOSE i \in SepPositions(s, sep) :
             \A j \in SepPositions(s, sep) : i <= j
      j == CHOOSE j \in SepPositions(s, sep) :
             \A k \in SepPositions(s, sep) : k <= j
  IN  << SubSeq(s, 1, i - 1), SubSeq(s, i + 1, j - 1), SubSeq(s, j + 1, Len(s)) >>

\* A number of one or two digits, or a digit after a blank.
IsShortNumber(f) ==
  \/ Len(f) \in 1..2 /\ IsDigits(f)
  \/ Len(f) = 2 /\ f[1] = " " /\ f[2] \in Digits

NumberOf(f) == IF f[1] = " " THEN DigitVal(f[2]) ELSE ToInt(f)

\* The date the text denotes under a pattern, as a set: empty when the text
\* is not a literal of the pattern.  A year is four digits; a month is one
\* or two digits; a day is one or two digits or a blank-padded digit; the
\* three must name a day of the calendar.
DatesUnder(pat, s) ==
  IF Cardinality(SepPositions(s, pat.sep)) # 2 THEN {}
  ELSE LET f == FieldsOf(s, pat.sep)
           fy == f[CHOOSE k \in 1..3 : pat.order[k] = "year"]
           fm == f[CHOOSE k \in 1..3 : pat.order[k] = "month"]
           fd == f[CHOOSE k \in 1..3 : pat.order[k] = "day"]
       IN  IF /\ Len(fy) = 4 /\ IsDigits(fy) /\ ToInt(fy) >= 1
              /\ Len(fm) \in 1..2 /\ IsDigits(fm) /\ ToInt(fm) \in 1..12
              /\ IsShortNumber(fd) /\ NumberOf(fd) >= 1
              /\ NumberOf(fd) <= DaysInMonth(ToInt(fy), ToInt(fm))
           THEN {Date(ToInt(fy), ToInt(fm), NumberOf(fd))}
           ELSE {}

\* The patterns the text is a literal of.
MatchingPatterns(s) ==
  {i \in 1..Len(ClaimedPatterns) : DatesUnder(ClaimedPatterns[i], s) # {}}

FirstMatching(s) ==
  CHOOSE i \in MatchingPatterns(s) : \A j \in MatchingPatterns(s) : i <= j

\* One literal for each of the six patterns.
PatternExamples ==
  << <<"2", "0", "2", "4", "-", "0", "3", "-", "1", "5">>,
     <<"0", "3", "/", "1", "5", "/", "2", "0", "2", "4">>,
     <<"1", "5", "/", "0", "3", "/", "2", "0", "2", "4">>,
     <<"2", "0", "2", "4", "/", "0", "3", "/", "1", "5">>,
     <<"1", "5", "-", "0", "3", "-", "2", "0", "2", "4">>,
     <<"0", "3", "-", "1", "5", "-", "2", "0", "2", "4">> >>

\* C3: _parse_date returns the date given by the first of the six patterns,
\* in the order YYYY-MM-DD, MM/DD/YYYY, DD/MM/YYYY, YYYY/MM/DD, DD-MM-YYYY,
\* MM-DD-YYYY, that the input is a literal of; when it is a literal of none
\* it raises an error carrying the input; and each of the six patterns
\* produces the result of some input.
C3_FirstMatchWins ==
  /\ (call = "_parse_date" /\ IsStr(arg)) =>
       IF MatchingPatterns(arg) = {}
       THEN ~ret.ok /\ ret.exc.type = "ValueError" /\ ret.exc.arg = arg
       ELSE /\ ret.ok
            /\ ret.fmt = FirstMatching(arg)
            /\ {ret.val} = DatesUnder(ClaimedPatterns[FirstMatching(arg)], arg)
  /\ (call = "_parse_date" /\ arg = PatternExamples[6]) =>
       \A i \in 1..Len(ClaimedPatterns) :
         /\ _parse_date(PatternExamples[i]).ok
         /\ _parse_date(PatternExamples[i]).fmt = i

\* A date has been returned by the last of the six patterns.
C3_Witness ==
  /\ call = "_parse_date"
  /\ arg = PatternExamples[6]
  /\ ret.ok
  /\ ret.fmt = 6
  /\ ret.val = Date(2024, 3, 15)

AmbiguousDate == <<"0", "3", "/", "0", "4", "/", "2", "0", "2", "4">>

\* C4 as stated: for "03/04/2024" _parse_date returns April 3 2024.
C4_AsStated ==
  (call = "_parse_date" /\ arg = AmbiguousDate) =>
     ret.ok /\ ret.val = Date(2024, 4, 3)

\* C4, amended: for "03/04/2024" _parse_date returns March 4 2024, the
\* reading of MM/DD/YYYY, which precedes DD/MM/YYYY in the list.
C4_MonthFirst ==
  (call = "_parse_date" /\ arg = AmbiguousDate) =>
     ret.ok /\ ret.val = Date(2024, 3, 4) /\ ret.fmt = 2

\* The ambiguous date has been parsed.
C4_Witness ==
  call = "_parse_date" /\ arg = AmbiguousDate /\ ret.ok

(***************************************************************************)
(* C2: the amount normaliser on decorated decimal strings                  *)
(***************************************************************************)

\* s without its leading and trailing whitespace.
RECURSIVE Trim(_)
Trim(s) ==
  IF s = <<>> THEN s
  ELSE IF Head(s) \in Whitespace THEN Trim(Tail(s))
  ELSE IF s[Len(s)] \in Whitespace THEN Trim(SubSeq(s, 1, Len(s) - 1))
  ELSE s

StartsWithSymbol(s) == IF s = <<>> THEN FALSE ELSE s[1] \in CurrencySymbols

\* s without one leading currency symbol.
DropSymbol(s) == IF StartsWithSymbol(s) THEN Tail(s) ELSE s

\* An unsigned decimal numeral with thousands separators: digits, with
\* commas between digits of the integer part, and at most one point.
IsUnsignedNumeral(u) ==
  LET dots == {i \in 1..Len(u) : u[i] = "."}
      n == IF dots = {} THEN Len(u) + 1 ELSE CHOOSE i \in dots : TRUE
      int == SubSeq(u, 1, n - 1)
      frac == SubSeq(u, n + 1, Len(u))
  IN  /\ Cardinality(dots) <= 1
      /\ \A i \in 1..Len(int) : int[i] \in Digits \cup {","}
      /\ \A i \in 1..Len(int) :
           int[i] = "," => /\ i > 1 /\ i < Len(int)
                           /\ int[i - 1] \in Digits /\ int[i + 1] \in Digits
      /\ IsDigits(frac)
      /\ Len(int) + Len(frac) > 0

\* The digits of a numeral, in order.
RECURSIVE DigitsOf(_)
DigitsOf(u) ==
  IF u = <<>> THEN <<>>
  ELSE IF Head(u) \in Digits THEN <<Head(u)>> \o DigitsOf(Tail(u))
  ELSE DigitsOf(Tail(u))

\* The number of digits after the point.
FractionDigits(u) ==
  LET dots == {i \in 1..Len(u) : u[i] = "."}
  IN  IF dots = {} THEN 0 ELSE Len(u) - (CHOOSE i \in dots : TRUE)

\* How a text reads as a decorated decimal string: whitespace around it, at
\* most one currency symbol before the parenthesis, the sign or the digits,
\* an enclosing parenthesis pair, a sign, then the unsigned numeral.
Decoration(s) ==
  LET t == Trim(s)
      t1 == DropSymbol(t)
      paren == IF Len(t1) >= 2 THEN t1[1] = "(" /\ t1[Len(t1)] = ")" ELSE FALSE
      inner == IF paren THEN SubSeq(t1, 2, Len(t1) - 1) ELSE t1
      sym1 == StartsWithSymbol(t)
      inner1 == IF sym1 THEN inner ELSE DropSymbol(inner)
      sym2 == sym1 \/ StartsWithSymbol(inner)
      signed == IF inner1 = <<>> THEN FALSE ELSE inner1[1] \in {"-", "+"}
      minus == IF signed THEN inner1[1] = "-" ELSE FALSE
      rest == IF signed THEN Tail(inner1) ELSE inner1
      numeral == IF sym2 THEN rest ELSE DropSymbol(rest)
  IN  [valid |-> IsUnsignedNumeral(numeral), paren |-> paren,
       signed |-> signed, minus |-> minus, numeral |-> numeral]

\* The exact value of the numeral with the given sign: all its digits, and
\* as many fractional digits as the text has.
ExactValue(negative, numeral) ==
  DecimalValue("finite", IF negative THEN 1 ELSE 0, ToInt(DigitsOf(numeral)),
               0 - FractionDigits(numeral))

\* C2 as stated: for every valid decimal string, signed or not, decorated
\* with a currency symbol, thousands separators, surrounding whitespace or
\* an enclosing parenthesis pair, _parse_amount returns its exact value,
\* with the sign inverted when it is parenthesised.
C2_AsStated ==
  (call = "_parse_amount" /\ IsStr(arg)) =>
     LET d == Decoration(arg)
     IN  d.valid => /\ ret.ok
                     /\ ret.val = ExactValue(d.minus # d.paren, d.numeral)

\* C2, amended: the same for every decorated valid decimal string whose
\* parenthesised form holds an unsigned numeral: the value is exact, negative
\* when parenthesised; a parenthesised numeral that carries its own sign is
\* not negated but rejected with an error.
C2_ExactAmount ==
  (call = "_parse_amount" /\ IsStr(arg)) =>
     LET d == Decoration(arg)
     IN  d.valid =>
           IF d.paren /\ d.signed
           THEN ~ret.ok /\ ret.exc.type = "InvalidOperation"
           ELSE /\ ret.ok
                /\ ret.val = ExactValue(d.minus \/ d.paren, d.numeral)

\* "$1,234.56" has been parsed to 1234.56.
C2_Witness ==
  /\ call = "_parse_amount"
  /\ arg = <<"$", "1", ",", "2", "3", "4", ".", "5", "6">>
  /\ ret = Return(DecimalValue("finite", 0, 123456, 0 - 2))

(***************************************************************************)
(* C5, C6: header line and data lines                                      *)
(***************************************************************************)

\* C5 as stated: the returned list holds one transaction per line that
\* follows the header line.
C5_AsStated ==
  (call = "parse" /\ ret.ok /\ HasHeader) =>
     Len(ret.val) = Len(LinesAfterHeader)

\* The amounts -45.23, 2500.00 and -35.50.
ExampleAmounts ==
  << DecimalValue("finite", 1, 4523, 0 - 2),
     DecimalValue("finite", 0, 250000, 0 - 2),
     DecimalValue("finite", 1, 3550, 0 - 2) >>

\* C5, amended: line skip_header_lines is the header row, and the returned
\* list holds one transaction per line after it that is not blank, in file
\* order (blank lines are skipped and yield no transaction); the three-line
\* example yields the amounts -45.23, 2500.00, -35.50 and a header-only file
\* yields none.
C5_OnePerRecord ==
  /\ (call = "parse" /\ ret.ok /\ HasHeader) =>
       /\ Len(ret.val) = Len(Records)
       /\ \A i \in 1..Len(ret.val) :
            /\ HasField(Records[i], importer.columns.date)
            /\ LET text == FieldOf(Records[i], importer.columns.date)
               IN  /\ MatchingPatterns(text) # {}
                   /\ {ret.val[i].date} =
                        DatesUnder(ClaimedPatterns[FirstMatching(text)], text)
            /\ HasField(Records[i], importer.columns.narration) =>
                 ret.val[i].narration = FieldOf(Records[i], importer.columns.narration)
  /\ (call = "parse" /\ ParsedLines = ExampleFile
        /\ importer.skip_header_lines = 0) =>
       /\ ret.ok
       /\ [i \in 1..Len(ret.val) |-> ret.val[i].amount] = ExampleAmounts

\* A file with a line before the header and a blank line among its data
\* lines has been parsed into one transaction.
C5_Witness ==
  /\ call = "parse"
  /\ ret.ok
  /\ importer.skip_header_lines = 1
  /\ HasHeader
  /\ Len(LinesAfterHeader) = 2
  /\ Len(ret.val) = 1

\* C6: when skip_header_lines is at least the number of lines of the file,
\* the empty file included, parse returns the empty list and raises nothing.
C6_SkipBeyondEnd ==
  (call = "parse" /\ importer.skip_header_lines >= Len(ParsedLines)) =>
     ret = Return(<<>>)

\* A file of exactly skip_header_lines lines has been parsed.
C6_Witness ==
  /\ call = "parse"
  /\ Len(ParsedLines) >= 1
  /\ importer.skip_header_lines = Len(ParsedLines)
  /\ ret = Return(<<>>)

(***************************************************************************)
(* C7: metadata                                                            *)
(***************************************************************************)

\* The configured metadata names the record holds a field for, each with the
\* text of the field, in configured order.
ExpectedMeta(record) ==
  LET Present(name) == HasField(record, name)
      names == SelectSeq(importer.columns.meta, Present)
  IN  [k \in 1..Len(names) |-> <<names[k], FieldOf(record, names[k])>>]

\* C7: with meta fields configured, the metadata of each transaction holds
\* exactly the configured names that are present in the row, each with the
\* row's value, in configured order; names absent from the row are skipped.
C7_MetaExactlyPresent ==
  (call = "parse" /\ ret.ok /\ HasHeader /\ "meta" \in DOMAIN importer.columns) =>
     /\ Len(ret.val) = Len(Records)
     /\ \A i \in 1..Len(ret.val) : ret.val[i].meta = ExpectedMeta(Records[i])

(***************************************************************************)
(* C8, C9: failing rows                                                    *)
(***************************************************************************)

\* The row mapper applied to the i-th record of the file.
MappedRecord(i) == _parse_row(importer, DictReaderRow(HeaderNames, Records[i]))

FailingRecords == {i \in 1..Len(Records) : ~MappedRecord(i).ok}

\* C8: if any data row of the file fails normalisation, parse returns no
\* transactions at all: the error of the first failing row propagates out of
\* parse, and the transactions of the rows before and after it are lost.
C8_NoPartialResults ==
  (call = "parse" /\ HasHeader /\ FailingRecords # {}) =>
     /\ ~ret.ok
     /\ "val" \notin DOMAIN ret
     /\ \E i \in FailingRecords :
          /\ \A j \in FailingRecords : i <= j
          /\ ret = MappedRecord(i)

\* A file whose first row maps and whose second row fails has been parsed.
C8_Witness ==
  /\ call = "parse"
  /\ HasHeader
  /\ Len(Records) = 2
  /\ FailingRecords = {2}
  /\ ~ret.ok

\* The configured fields the record holds no field for.
MissingFields(record) == {name \in MappedFields : ~HasField(record, name)}

\* The fields the record does hold can be normalised.
PresentFieldsParse(record) ==
  /\ HasField(record, importer.columns.date) =>
       MatchingPatterns(FieldOf(record, importer.columns.date)) # {}
  /\ HasField(record, importer.columns.amount) =>
       LET d == Decoration(FieldOf(record, importer.columns.amount))
       IN  d.valid /\ ~(d.paren /\ d.signed)

\* C9: when a row does not contain a field the column mapping names for
\* date, narration or amount, the row mapper fails with a missing-column
\* error naming the configured field and produces no transaction.
C9_MissingColumnError ==
  (call = "parse" /\ HasHeader /\ Records # <<>>) =>
     ((MissingFields(Records[1]) # {} /\ PresentFieldsParse(Records[1])) =>
        /\ ~ret.ok
        /\ ret.exc.type = "KeyError"
        /\ ret.exc.arg \in MissingFields(Records[1]))

(***************************************************************************)
(* C10: statelessness                                                      *)
(***************************************************************************)

\* The importer as its constructor left it.
FreshImporter == GenericCSVImporter(loaded_config).val

FirstLine(entry) ==
  LET nl == {i \in 1..Len(entry) : entry[i] = "\n"}
  IN  IF nl = {} THEN entry
      ELSE SubSeq(entry, 1, (CHOOSE i \in nl : \A k \in nl : i <= k) - 1)

\* A number in exactly four digits.
FourDigits(n) ==
  <<DigitChar(n \div 1000), DigitChar((n \div 100) % 10),
    DigitChar((n \div 10) % 10), DigitChar(n % 10)>>

\* A number in exactly two digits.
TwoDigits(n) == <<DigitChar(n \div 10), DigitChar(n % 10)>>

\* A date written YYYY-MM-DD.
IsoDate(d) ==
  FourDigits(d.year) \o <<"-">> \o TwoDigits(d.month) \o <<"-">> \o TwoDigits(d.day)

\* `<date as YYYY-MM-DD> * "<institution>" "<narration>"`
HeaderLine(institution, txn) ==
  IsoDate(txn.date) \o <<" ", "*", " ", "\"">> \o institution
    \o <<"\"", " ", "\"">> \o Str(txn.narration) \o <<"\"">>

\* C11: to_beancount returns exactly one ledger entry per input
\* transaction, in the input order, and the first line of each entry is
\* `<date as YYYY-MM-DD> * "<institution>" "<narration>"`, built from that
\* transaction's date and narration and the importer's institution.
C11_HeaderPerTransaction ==
  call = "to_beancount" =>
    /\ ret.ok
    /\ Len(ret.val) = Len(arg)
    /\ \A i \in 1..Len(arg) :
         FirstLine(ret.val[i]) = HeaderLine(importer.institution, arg[i])

\* The header of test_convert_to_beancount_format is the one claimed.
C11_ExampleHeader ==
  (call = "to_beancount" /\ Len(arg) = 1 /\ arg[1].date = Date(2024, 1, 15)
     /\ arg[1].narration = <<"G", "r", "o", "c", "e", "r", "y", " ",
                             "S", "t", "o", "r", "e">>)
  => FirstLine(ret.val[1]) =
       <<"2", "0", "2", "4", "-", "0", "1", "-", "1", "5", " ", "*", " ",
         "\"", "C", "h", "a", "s", "e", "\"", " ", "\"", "G", "r", "o", "c", "e",
         "r", "y", " ", "S", "t", "o", "r", "e", "\"">>


(***************************************************************************)
(* C12: a file that fails to parse is skipped                              *)
(***************************************************************************)

\* Whether the importer of _process_csv parses the k-th matching file.
FileParses(k) == parse(importer, frame.matching_files[k].lines).ok

\* The transactions of the k-th matching file.
TransactionsOfFile(k) == parse(importer, frame.matching_files[k].lines).val

\* The two lines printed for the k-th of the n files processed so far,
\* which are the last 2n lines printed.
LinesOfFile(k, n) ==
  SubSeq(printed, Len(printed) - 2 * n + 2 * k - 1, Len(printed) - 2 * n + 2 * k)

\* _process_csv has finished for the configuration run_single was called
\* with last.
CsvProcessed == pc = "run_all" /\ importer # NoneValue

\* What parse makes of each of the first n matching files.
RECURSIVE ParseResults(_)
ParseResults(n) ==
  IF n = 0 THEN <<>>
  ELSE Append(ParseResults(n - 1), parse(importer, frame.matching_files[n].lines))

\* Of the results of the first n files, the transactions of those that
\* parsed, file after file in processing order.
RECURSIVE Collected(_, _)
Collected(results, n) ==
  IF n = 0 THEN <<>>
  ELSE Collected(results, n - 1) \o (IF results[n].ok THEN results[n].val ELSE <<>>)

\* The transactions of the first n matching files that parse, file after
\* file in processing order.
TransactionsOfParsedFiles(n) == Collected(ParseResults(n), n)

\* C12: within one institution's run over several matching files, a file
\* whose parse fails is logged and skipped and the runner continues with
\* the next file: the transactions aggregated for output are exactly the
\* concatenation, in processing order, of the transactions of the files
\* that parsed successfully, and a failed file contributes none of its rows.
C12_FailedFileSkipped ==
  (pc = "_process_csv" \/ CsvProcessed) =>
    \A results \in {ParseResults(frame.j - 1)} :
      /\ pc = "_process_csv" =>
           /\ frame.all_transactions = Collected(results, frame.j - 1)
           /\ \A k \in 1..(frame.j - 1) :
                /\ LinesOfFile(k, frame.j - 1)[1].fmt = "  Processing: {file_path.name}"
                /\ LinesOfFile(k, frame.j - 1)[1].arg = frame.matching_files[k].name
                /\ IF results[k].ok
                   THEN LinesOfFile(k, frame.j - 1)[2].fmt =
                          "    Imported {len(transactions)} transaction(s)"
                   ELSE /\ LinesOfFile(k, frame.j - 1)[2].fmt = "    ERROR: {e}"
                        /\ LinesOfFile(k, frame.j - 1)[2].arg = results[k].exc
      /\ CsvProcessed =>
           /\ frame.j = Len(frame.matching_files) + 1
           /\ \A transactions \in {Collected(results, Len(frame.matching_files))} :
                /\ frame.all_transactions = transactions
                /\ transactions # <<>> =>
                     /\ DictHas(dirs.output_dir, output_file(loaded_config))
                     /\ DictGet(dirs.output_dir, output_file(loaded_config)) =
                          output_text(loaded_config, transactions, importer)

\* A file that failed has been followed by a file whose transactions were
\* collected, and the output has been written.
C12_Witness ==
  /\ CsvProcessed
  /\ Len(frame.matching_files) >= 2
  /\ ~FileParses(1)
  /\ FileParses(2)
  /\ TransactionsOfFile(2) # <<>>
  /\ frame.all_transactions # <<>>
  /\ DictHas(dirs.output_dir, output_file(loaded_config))


(***************************************************************************)
(* C13: an invalid configuration in the batch of run_all                   *)
(***************************************************************************)

\* Whether v is a mapping with the key k.
HasKey(v, k) == IF IsDict(v) THEN k \in DOMAIN v ELSE FALSE

\* The config contains the four required keys.
HasRequiredFields(config) ==
  \A k \in {"institution", "driver", "file_pattern", "columns"} : HasKey(config, k)

\* The columns mapping of the config contains the three required keys.
HasRequiredColumns(config) ==
  \A k \in {"date", "narration", "amount"} : HasKey(config.columns, k)

\* A configuration that is invalid: a required field is missing or
\* malformed, or the driver is not "csv".
IsInvalid(config) ==
  IF HasRequiredFields(config)
  THEN ~HasRequiredColumns(config) \/ config.driver # "csv"
  ELSE TRUE

\* The loop of run_all is at a configuration that is invalid.
AtInvalidConfig ==
  /\ pc = "run_all"
  /\ frame.i <= Len(frame.configs)
  /\ IsInvalid(frame.configs[frame.i])

\* C13: in run_all, a configuration that is invalid produces no output for
\* that institution and never stops the batch: run_single returns to the
\* loop, which goes on to the next loaded configuration, and nothing is
\* written to the output directory.
C13_InvalidConfigSkipped ==
  [][ AtInvalidConfig =>
        /\ pc' = "run_all"
        /\ frame'.i = frame.i + 1
        /\ dirs'.output_dir = dirs.output_dir ]_vars

(***************************************************************************)
(* C14: the output file of an institution                                  *)
(***************************************************************************)

\* The institution name lowercased, its spaces replaced by underscores.
Slug(name) ==
  [i \in 1..Len(name) |->
     IF name[i] = " " THEN "_"
     ELSE IF \E k \in 1..26 : UpperCase[k] = name[i]
     THEN LowerCase[CHOOSE k \in 1..26 : UpperCase[k] = name[i]]
     ELSE name[i]]

\* The positions of the newlines of a text, in ascending order.
Newlines(text) ==
  SelectSeq([i \in 1..Len(text) |-> i], LAMBDA i : text[i] = "\n")

\* The lines of a text; the text after the last newline is the last line.
LinesOfText(text, nl) ==
  [k \in 1..(Len(nl) + 1) |->
     SubSeq(text, IF k = 1 THEN 1 ELSE nl[k - 1] + 1,
                  IF k = Len(nl) + 1 THEN Len(text) ELSE nl[k] - 1)]

\* The text of the output file written for the configuration run_single
\* was called with last.
OutputText == DictGet(dirs.output_dir,
    Slug(loaded_config.institution) \o <<"_", "i", "m", "p", "o", "r", "t",
    ".", "b", "e", "a", "n">>)

\* Of the lines of a file, those after the two comment lines and the blank
\* line, without the empty text after the last newline.
EntryLines(lines) == SubSeq(lines, 4, Len(lines) - 1)

\* Where the entries start: at a line that is not blank and follows a blank
\* line or the head of the file.
EntryStarts(body) ==
  {i \in 1..Len(body) : body[i] # <<>> /\ (i = 1 \/ body[i - 1] = <<>>)}

\* Where the k-th entry starts.
EntryStart(starts, k) ==
  CHOOSE i \in starts : Cardinality({j \in starts : j <= i}) = k

\* Every run of lines that are not blank is followed by exactly one blank
\* line.
EachEntryBeforeBlankLine(body) ==
  /\ \A i \in 1..Len(body) : body[i] # <<>> => i < Len(body)
  /\ \A i \in 1..(Len(body) - 1) : body[i] = <<>> => body[i + 1] # <<>>
  /\ body # <<>> => body[1] # <<>>

\* The lines are two comment lines (the institution name, then the number
\* of transactions), a blank line, and one entry per transaction, each
\* followed by a blank line.
IsOutputOf(lines, institution, transactions) ==
  /\ Len(lines) >= 4
  /\ lines[1] = <<";", " ", "I", "m", "p", "o", "r", "t", "e", "d", " ", "t",
      "r", "a", "n", "s", "a", "c", "t", "i", "o", "n", "s", " ", "f", "r",
      "o", "m", " ">> \o institution
  /\ lines[2] = <<";", " ", "T", "o", "t", "a", "l", " ", "t", "r", "a", "n",
      "s", "a", "c", "t", "i", "o", "n", "s", ":",
      " ">> \o IntToStr(Len(transactions))
  /\ lines[3] = <<>>
  /\ lines[Len(lines)] = <<>>
  /\ \A body \in {EntryLines(lines)} :
       /\ EachEntryBeforeBlankLine(body)
       /\ \A starts \in {EntryStarts(body)} :
            /\ Cardinality(starts) = Len(transactions)
            /\ \A k \in 1..Len(transactions) :
                 body[EntryStart(starts, k)] = HeaderLine(institution, transactions[k])

\* C14: the output file written for an institution is named
\* `<slug>_import.bean`, slug being the institution name lowercased with
\* spaces replaced by underscores; it starts with two comment lines (the
\* institution name, then `Total transactions: K`) and then holds one
\* ledger entry per transaction, each followed by a blank line, where K
\* equals both the number of entries written and the number of transactions
\* successfully parsed for that institution.
C14_OutputFile ==
  CsvProcessed =>
    \A transactions \in {TransactionsOfParsedFiles(Len(frame.matching_files))} :
      transactions # <<>> =>
        /\ DictHas(dirs.output_dir, Slug(loaded_config.institution) \o <<"_",
            "i", "m", "p", "o", "r", "t", ".", "b", "e", "a", "n">>)
        /\ \A text \in {OutputText} : \A nl \in {Newlines(text)} :
             \A lines \in {LinesOfText(text, nl)} :
               IsOutputOf(lines, loaded_config.institution, transactions)

\* The output of an institution whose name has a space and a capital has
\* been written with the transactions of two files.
C14_Witness ==
  /\ CsvProcessed
  /\ loaded_config.institution = BigBank
  /\ Len(frame.matching_files) = 2
  /\ FileParses(1) /\ FileParses(2)
  /\ Len(TransactionsOfParsedFiles(2)) >= 2
  /\ DictHas(dirs.output_dir, <<"b", "i", "g", "_", "b", "a", "n", "k", "_",
      "i", "m", "p", "o", "r", "t", ".", "b", "e", "a", "n">>)

(***************************************************************************)
(* C15, C16: the two validations of a configuration                        *)
(***************************************************************************)

\* C15: constructing GenericCSVImporter fails with a ValueError whenever
\* the config lacks any of institution, driver, file_pattern, columns,
\* lacks any of the column keys date, narration, amount, or has a driver
\* different from "csv"; otherwise construction succeeds with
\* skip_header_lines defaulting to 0 and account defaulting to empty.
C15_ConstructorValidates ==
  call = "GenericCSVImporter" =>
    IF HasRequiredFields(loaded_config)
    THEN IF HasRequiredColumns(loaded_config) /\ loaded_config.driver = "csv"
         THEN /\ ret.ok
              /\ ret.val.skip_header_lines =
                   (IF HasKey(loaded_config, "skip_header_lines")
                    THEN loaded_config.skip_header_lines ELSE 0)
              /\ ret.val.account =
                   (IF HasKey(loaded_config, "account")
                    THEN loaded_config.account ELSE <<>>)
         ELSE ~ret.ok /\ ret.exc.type = "ValueError"
    ELSE ~ret.ok /\ ret.exc.type = "ValueError"

\* C16: ConfigLoader.validate returns True exactly when the config contains
\* the four keys institution, driver, file_pattern, columns and its columns
\* mapping contains the three keys date, narration, amount; in every other
\* case it returns False, and it never raises.
C16_ValidateIsTotal ==
  call = "validate" =>
    /\ ret.ok
    /\ ret.val = IF HasRequiredFields(loaded_config)
                 THEN HasRequiredColumns(loaded_config) ELSE FALSE


(***************************************************************************)
(* C17: the prices generate_prices returns                                 *)
(***************************************************************************)

\* The CPI value of a date of the data.
CpiOf(cpi_data, d) == cpi_data[CHOOSE i \in 1..Len(cpi_data) : cpi_data[i][1] = d][2]

\* The date the prices are relative to: the base date if the data has it,
\* else the date of the data nearest to it, the earlier of two equally near.
BaseDateOf(cpi_data, base_date) ==
  IF \E i \in 1..Len(cpi_data) : cpi_data[i][1] = base_date THEN base_date
  ELSE CHOOSE d \in {cpi_data[i][1] : i \in 1..Len(cpi_data)} :
         \A i \in 1..Len(cpi_data) :
           \/ AbsDays(d, base_date) < AbsDays(cpi_data[i][1], base_date)
           \/ /\ AbsDays(d, base_date) = AbsDays(cpi_data[i][1], base_date)
              /\ toordinal(d) <= toordinal(cpi_data[i][1])

\* The coefficient of a decimal with its exponent lowered to e.
ScaledTo(x, e) == x.coef * Pow10(x.exp - e)

\* cpi / base_cpi in hundredths, rounded half-up: the quotient of the two
\* exact values plus one half, rounded down.
HalfUpCents(cpi, base_cpi) ==
  LET e == IF cpi.exp < base_cpi.exp THEN cpi.exp ELSE base_cpi.exp
  IN  (200 * ScaledTo(cpi, e) + ScaledTo(base_cpi, e)) \div (2 * ScaledTo(base_cpi, e))

\* C17: generate_prices returns an empty list for empty CPI data, and
\* otherwise exactly one price entry per CPI data point in ascending date
\* order, each value being cpi/base_cpi rounded to 2 decimal places with
\* round-half-up; the entry for the base date has value exactly 1.00.
C17_PricePerDataPoint ==
  call = "generate_prices" =>
    /\ ret.ok
    /\ Len(ret.val) = Len(arg.cpi_data)
    /\ {ret.val[i].date : i \in 1..Len(ret.val)} =
         {arg.cpi_data[i][1] : i \in 1..Len(arg.cpi_data)}
    /\ \A i, j \in 1..Len(ret.val) :
         i < j => toordinal(ret.val[i].date) < toordinal(ret.val[j].date)
    /\ \A i \in 1..Len(ret.val) :
         /\ ret.val[i].value =
              DecimalValue("finite", 0,
                           HalfUpCents(CpiOf(arg.cpi_data, ret.val[i].date),
                                       CpiOf(arg.cpi_data,
                                             BaseDateOf(arg.cpi_data, arg.base_date))),
                           -2)
         /\ ret.val[i].date = BaseDateOf(arg.cpi_data, arg.base_date) =>
              ret.val[i].value = DecimalValue("finite", 0, 100, -2)

(***************************************************************************)
(* C18: the configurations load_all_from_directory returns                 *)
(***************************************************************************)

\* The name ends in .yaml or .yml.
IsYamlName(filename) ==
  \/ Len(filename) >= 5 /\ SubSeq(filename, Len(filename) - 4,
      Len(filename)) = <<".", "y", "a", "m", "l">>
  \/ Len(filename) >= 4 /\ SubSeq(filename, Len(filename) - 3,
      Len(filename)) = <<".", "y", "m", "l">>

\* The YAML files of the configuration directory, in the order of the
\* listing.
YamlFiles == SelectSeq(dirs.config_dir.entries, LAMBDA e : IsYamlName(e.filename))

\* Whether a file loads: it is there and it is well-formed YAML.
Loads(e) == e.exists /\ ~e.malformed

\* The warnings among the lines printed.
Warnings ==
  SelectSeq(printed, LAMBDA p : p.fmt = "Warning: Failed to load {filename}: {e}")

\* run_all has called load_all_from_directory on a directory.
ConfigsLoaded == pc # "start" /\ dirs.config_dir.is_dir

\* C18: load_all_from_directory returns one configuration per .yaml/.yml
\* file of the directory that loads successfully; a file that is malformed
\* YAML or has disappeared is reported and skipped and does not prevent the
\* remaining files from being loaded.
C18_FailedConfigSkipped ==
  ConfigsLoaded =>
    /\ \A loaded \in {SelectSeq(YamlFiles, Loads)} :
         /\ Len(frame.configs) = Len(loaded)
         /\ \A i \in 1..Len(loaded) : frame.configs[i] = loaded[i].config
    /\ \A failed \in {SelectSeq(YamlFiles, LAMBDA e : ~Loads(e))} :
         /\ Len(Warnings) = Len(failed)
         /\ \A i \in 1..Len(failed) : Warnings[i].arg = failed[i].filename

\* A file that failed to load came before a file that was loaded.
C18_Witness ==
  /\ ConfigsLoaded
  /\ Len(YamlFiles) = 2
  /\ ~Loads(YamlFiles[1])
  /\ Loads(YamlFiles[2])
  /\ Len(frame.configs) = 1
  /\ Len(Warnings) = 1

(***************************************************************************)
(* C19: what _parse_amount rejects                                         *)
(***************************************************************************)

\* The text without its currency symbols, commas and whitespace.
Stripped(s) == SelectSeq(s, LAMBDA c : c \notin CurrencySymbols \cup {","} \cup Whitespace)

\* Parenthesis negation: (x) is read as -x.
ParenNegated(s) ==
  IF Len(s) >= 2 /\ s[1] = "(" /\ s[Len(s)] = ")"
  THEN <<"-">> \o SubSeq(s, 2, Len(s) - 1)
  ELSE s

\* A plain signed decimal numeral: an optional sign, then digits with at
\* most one decimal point among them, at least one digit.
IsPlainNumeral(s) ==
  LET body == IF s # <<>> /\ s[1] \in {"-", "+"} THEN Tail(s) ELSE s
  IN  /\ \A i \in 1..Len(body) : body[i] \in Digits \cup {"."}
      /\ Cardinality({i \in 1..Len(body) : body[i] = "."}) <= 1
      /\ \E i \in 1..Len(body) : body[i] \in Digits

\* C19: _parse_amount never returns a value for text that, after stripping
\* currency symbols, commas and whitespace and applying parenthesis
\* negation, is not a plain signed decimal numeral: any residual
\* non-numeric content (letters, a second sign, special tokens) makes it
\* fail with an amount-format error.
C19_ResidueRejected ==
  (call = "_parse_amount" /\ IsStr(arg)) =>
     (~IsPlainNumeral(ParenNegated(Stripped(arg))) =>
        ~ret.ok /\ ret.exc.type = "InvalidOperation")

(***************************************************************************)
(* C20: rows longer or shorter than the header                             *)
(***************************************************************************)

\* What the row mapper makes of a record read under the header.
MappedAs(record) == _parse_row(importer, DictReaderRow(HeaderNames, record))

\* The record without the fields beyond the header's.
WithoutSurplus(record) == SubSeq(record, 1, Len(HeaderNames))

\* C20: rows need not have the header's field count: a data row with more
\* fields than the header yields the same transaction as that row with the
\* surplus fields removed, and a data row with fewer fields than the header
\* parses successfully when none of the configured date/narration/amount
\* columns is among the missing fields and fails with the missing-column
\* error when one of them is.
C20_RowLength ==
  (call = "parse" /\ HasHeader) =>
    \A i \in 1..Len(Records) :
      /\ Len(Records[i]) > Len(HeaderNames) =>
           MappedAs(Records[i]) = MappedAs(WithoutSurplus(Records[i]))
      /\ Len(Records[i]) < Len(HeaderNames) =>
           IF MissingFields(Records[i]) = {}
           THEN PresentFieldsParse(Records[i]) => MappedAs(Records[i]).ok
           ELSE /\ ~MappedAs(Records[i]).ok
                /\ MappedAs(Records[i]).exc.type = "KeyError"

(***************************************************************************)
(* C21: the lines of a ledger entry                                        *)
(***************************************************************************)

\* The lines of an entry.
LinesOfEntry(entry) == LinesOfText(entry, Newlines(entry))

\* Whether an account identifier was configured.
AccountConfigured == importer.account # <<>> /\ importer.account # None

\* The metadata mapping of a transaction, empty if it has none.
MetaOf(txn) == IF "meta" \in DOMAIN txn THEN txn.meta ELSE <<>>

\* The lines after the header line: the posting line if an account was
\* configured, then one comment line per metadata entry.
LinesAfterHeaderLine(txn) ==
  (IF AccountConfigured
   THEN << <<" ", " ">> \o importer.account \o <<" ",
       " ">> \o DecimalStr(txn.amount) \o <<" ", "U", "S", "D">> >>
   ELSE <<>>)
  \o [k \in 1..Len(MetaOf(txn)) |->
        <<" ", " ", ";", " ">> \o Str(MetaOf(txn)[k][1]) \o <<":",
            " ">> \o Str(MetaOf(txn)[k][2])]

\* C21: each ledger entry produced by to_beancount consists, in this order,
\* of the header line, then a posting line `  <account>  <amount> USD` if
\* and only if an account identifier was configured, then one comment line
\* `  ; <key>: <value>` per metadata entry in the metadata mapping's order;
\* the entry therefore has 1 + (1 if account configured else 0) + (number
\* of metadata entries) lines.
C21_EntryLines ==
  call = "to_beancount" =>
    /\ ret.ok
    /\ Len(ret.val) = Len(arg)
    /\ \A i \in 1..Len(arg) :
         \A lines \in {LinesOfEntry(ret.val[i])} :
           /\ Len(lines) = 1 + (IF AccountConfigured THEN 1 ELSE 0) + Len(MetaOf(arg[i]))
           /\ Tail(lines) = LinesAfterHeaderLine(arg[i])

(***************************************************************************)
(* C22: the rate calculate_inflation_rate returns                          *)
(***************************************************************************)

\* A decimal as a whole number of units 10^e, with its sign.
SignedScaledTo(x, e) == (IF x.sign = 1 THEN -1 ELSE 1) * ScaledTo(x, e)

Magnitude(n) == IF n < 0 THEN -n ELSE n

\* The exact rate (cpi_end - cpi_start) / cpi_start as a fraction of whole
\* numbers.
RateFraction(cpi_start, cpi_end) ==
  LET e == IF cpi_start.exp < cpi_end.exp THEN cpi_start.exp ELSE cpi_end.exp
  IN  [num |-> SignedScaledTo(cpi_end, e) - SignedScaledTo(cpi_start, e),
       den |-> SignedScaledTo(cpi_start, e)]

\* The magnitude of a fraction in ten-thousandths, rounded half-up: the
\* whole ten-thousandths, and one more when the rest is a half or more.
HalfUpTenThousandths(f) ==
  LET n == 10000 * Magnitude(f.num)
      d == Magnitude(f.den)
  IN  n \div d + (IF 2 * (n % d) >= d THEN 1 ELSE 0)

\* C22: calculate_inflation_rate returns 0 when cpi_start is 0, and
\* otherwise (cpi_end - cpi_start) / cpi_start rounded to 4 decimal places
\* with round-half-up; it never raises.
C22_InflationRate ==
  call = "calculate_inflation_rate" =>
    /\ ret.ok
    /\ ret.val.kind = "finite"
    /\ IF arg.cpi_start.coef = 0
       THEN ret.val.coef = 0
       ELSE \A f \in {RateFraction(arg.cpi_start, arg.cpi_end)} :
              /\ ret.val.exp = -4
              /\ ret.val.coef = HalfUpTenThousandths(f)
              /\ ret.val.coef # 0 => (ret.val.sign = 1 <=> (f.num < 0) # (f.den < 0))

\* A rate has been calculated from a zero cpi_start and a cpi_end that is
\* not zero, or a rate that lies halfway between two values of four places
\* has been rounded away from zero (20000 to 19999 gives -0.0001).
C22_Witness ==
  /\ call = "calculate_inflation_rate"
  /\ \/ arg.cpi_start.coef = 0 /\ arg.cpi_end.coef # 0 /\ ret.ok
     \/ /\ arg.cpi_start = DecimalValue("finite", 0, 20000, 0)
        /\ arg.cpi_end = DecimalValue("finite", 0, 19999, 0)
        /\ ret = Return(DecimalValue("finite", 1, 1, -4))


(***************************************************************************)
(* C23: when the output file of an institution is written                  *)
(***************************************************************************)

\* run_single is about to be called with a configuration whose pattern no
\* file of the data directory matches.
NoFileMatches ==
  /\ pc = "run_all"
  /\ frame.i <= Len(frame.configs)
  /\ ~IsInvalid(frame.configs[frame.i])
  /\ \A k \in 1..Len(dirs.data_dir) :
       ~fnmatch(dirs.data_dir[k].name, frame.configs[frame.i].file_pattern)

\* The loop of _process_csv has ended.
AllFilesProcessed == pc = "_process_csv" /\ frame.j > Len(frame.matching_files)

\* The loop of _process_csv has ended and every matching file failed to
\* parse or gave no transaction.
NothingCollected ==
  /\ AllFilesProcessed
  /\ \A k \in 1..Len(frame.matching_files) :
       \A r \in {parse(importer, frame.matching_files[k].lines)} :
         ~r.ok \/ r.val = <<>>

\* C23: the runner writes an institution's output file only when at least
\* one transaction was collected from its files: a step that changes the
\* output directory ends _process_csv after a file gave a transaction and
\* changes the output file of that institution only; when no file matches,
\* or every matching file fails to parse or yields zero transactions, the
\* output directory, with any output file it holds, is left unchanged.
C23_OutputOnlyWithTransactions ==
  [][ /\ dirs'.output_dir # dirs.output_dir =>
           /\ AllFilesProcessed
           /\ ~NothingCollected
           /\ \A k \in 1..Len(dirs.output_dir) :
                dirs.output_dir[k][1] # Slug(loaded_config.institution) \o <<"_", "i", "m", "p", "o", "r", "t", ".", "b", "e", "a", "n">>
                  => /\ DictHas(dirs'.output_dir, dirs.output_dir[k][1])
                     /\ DictGet(dirs'.output_dir, dirs.output_dir[k][1]) = dirs.output_dir[k][2]
      /\ (NoFileMatches \/ NothingCollected) =>
           /\ dirs'.output_dir = dirs.output_dir
           /\ pc' = "run_all" ]_vars

\* _process_csv has ended for an institution whose files gave no
\* transaction, one of them having failed and one being without rows,
\* and the output file of that institution from an earlier run is as it was.
C23_Witness ==
  /\ CsvProcessed
  /\ Len(frame.matching_files) = 2
  /\ \E k \in 1..2 : ~FileParses(k)
  /\ \E k \in 1..2 : FileParses(k) /\ TransactionsOfFile(k) = <<>>
  /\ DictHas(dirs.output_dir, output_file(loaded_config))
  /\ DictGet(dirs.output_dir, output_file(loaded_config)) = EarlierOutput


(***************************************************************************)
(* C24: the output files of the institutions of one run                    *)
(***************************************************************************)

\* What the importer `self` makes of each of the files.
RECURSIVE ParseResultsOf(_, _)
ParseResultsOf(self, files) ==
  IF files = <<>> THEN <<>>
  ELSE Append(ParseResultsOf(self, SubSeq(files, 1, Len(files) - 1)),
              parse(self, files[Len(files)].lines))

\* The transactions an institution yields: those of the files of the data
\* directory that match its pattern and parse, file after file.
TransactionsOfInstitution(config) ==
  LET files == _find_matching_files(dirs.data_dir, config.file_pattern)
  IN  Collected(ParseResultsOf(GenericCSVImporter(config).val, files), Len(files))

\* The institution names of the loaded configurations differ from each
\* other.
DistinctInstitutions ==
  \A i, j \in 1..Len(frame.configs) :
    frame.configs[i].institution = frame.configs[j].institution => i = j

\* The output directory holds the output file of the institution, and the
\* file is the output of that institution with these transactions.
HasOutputOf(config, transactions) ==
  /\ DictHas(dirs.output_dir, Slug(config.institution) \o <<"_", "i", "m",
      "p", "o", "r", "t", ".", "b", "e", "a", "n">>)
  /\ \A text \in {DictGet(dirs.output_dir, Slug(config.institution) \o <<"_",
      "i", "m", "p", "o", "r", "t", ".", "b", "e", "a", "n">>)} :
       \A nl \in {Newlines(text)} : \A lines \in {LinesOfText(text, nl)} :
         IsOutputOf(lines, config.institution, transactions)

\* C24: after run_all over configurations whose institution names are
\* pairwise distinct, every institution that yielded at least one
\* transaction has its own output file, which holds that institution's
\* transactions: no configuration's output has been overwritten by
\* another's.
C24_OwnOutputFile ==
  (pc = "done" /\ DistinctInstitutions) =>
    \A i \in 1..Len(frame.configs) :
      \A transactions \in {TransactionsOfInstitution(frame.configs[i])} :
        transactions # <<>> => HasOutputOf(frame.configs[i], transactions)


(***************************************************************************)
(* C25: the runner's validation and the importer's agree                   *)
(***************************************************************************)

\* validate(config) is True and the driver is "csv": what run_single asks
\* of a configuration before it calls _process_csv.
AcceptedByRunner(config) ==
  /\ validate(config) = Return(TRUE)
  /\ HasKey(config, "driver")
  /\ config.driver = "csv"

\* C25: for every configuration, ConfigLoader.validate(config) is True and
\* driver equals "csv" if and only if GenericCSVImporter(config) constructs
\* without error, so the constructor called in _process_csv never raises.
C25_ValidationsAgree ==
  /\ call = "GenericCSVImporter" => (ret.ok <=> AcceptedByRunner(loaded_config))
  /\ call = "validate" =>
       ((ret = Return(TRUE) /\ HasKey(loaded_config, "driver")
                            /\ loaded_config.driver = "csv")
          <=> GenericCSVImporter(loaded_config).ok)

\* The constructor has been called with a configuration that validate
\* accepts and whose driver is "csv", its optional keys left out.
C25_Witness ==
  /\ call = "GenericCSVImporter"
  /\ AcceptedByRunner(loaded_config)
  /\ ~HasKey(loaded_config, "account")
  /\ ret.ok


(***************************************************************************)
(* C26: the base of the prices when the base date is not in the data       *)
(***************************************************************************)

\* The dates of the CPI data.
DataDates(cpi_data) == {cpi_data[i][1] : i \in 1..Len(cpi_data)}

\* The CPI data is not empty and the requested base date is none of its
\* dates.
BaseDateMissing == arg.cpi_data # <<>> /\ arg.base_date \notin DataDates(arg.cpi_data)

\* The date d of the data is the closest in days to the base date, and the
\* earlier one if another is as close.
IsClosest(d, cpi_data, base_date) ==
  /\ d \in DataDates(cpi_data)
  /\ \A e \in DataDates(cpi_data) \ {d} :
       \/ AbsDays(d, base_date) < AbsDays(e, base_date)
       \/ /\ AbsDays(d, base_date) = AbsDays(e, base_date)
          /\ toordinal(d) < toordinal(e)

\* C26: when the requested base date is not a key of non-empty CPI data,
\* generate_prices normalises against the CPI value of the data date
\* closest in days to the requested base date, the earlier date when two
\* are equally close: every value is the CPI value over that of the closest
\* date, in hundredths rounded half-up, and the entry for the closest date
\* has value 1.00.
C26_ClosestDateIsBase ==
  (call = "generate_prices" /\ BaseDateMissing) =>
    /\ ret.ok
    /\ \A d \in DataDates(arg.cpi_data) :
         IsClosest(d, arg.cpi_data, arg.base_date) =>
           \A i \in 1..Len(ret.val) :
             /\ ret.val[i].value.coef =
                  HalfUpCents(CpiOf(arg.cpi_data, ret.val[i].date),
                              CpiOf(arg.cpi_data, d))
             /\ ret.val[i].date = d =>
                  ret.val[i].value = DecimalValue("finite", 0, 100, -2)


====
